---------------------------- MODULE Spec2Model ----------------------------
(***************************************************************************)
(* A model of SPUD's USpudState (Source/SPUD/Private/SpudState.cpp) and of *)
(* the helpers of SpudPropertyUtil.h it calls.                             *)
(*                                                                         *)
(* The specifications of this module:                                      *)
(*   Spec        the property store / restore of one object across a       *)
(*               change of the build (class schema evolution);             *)
(*   SpecRename  store / restore with classes of the save renamed;         *)
(*   SpecRef     the reference resolver: encoding and decoding of actor    *)
(*               references against the lookup tables USpudState keeps;    *)
(*   SpecStore   repeated stores of one global object under its ID;        *)
(*   SpecActor   store and restore of the actors of a level;               *)
(*   SpecThreads two threads of the host calling into USpudState;          *)
(*   SpecSession several saves loaded one after the other by one process;  *)
(*   SpecNoRecord restores of actors and global objects the save has no    *)
(*               record for;                                               *)
(*   SpecContainers the containers a callback keeps in its custom data;    *)
(*   SpecWorld   stores and restores of the levels of a world by the game  *)
(*               thread;                                                   *)
(*   SpecChunks  the chunks a callback opens in its custom data.           *)
(*                                                                         *)
(* An FString is a sequence of tokens: a token stands for a run of         *)
(* characters that no operation of the code splits.                        *)
(***************************************************************************)
EXTENDS Integers, Sequences, FiniteSets, TLC

(***************************************************************************)
(* FString helpers                                                         *)
(***************************************************************************)
EmptyString == <<>>

IsEmpty(s) == Len(s) = 0

StartsWith(s, tok) == Len(s) > 0 /\ s[1] = tok

\* FString::Find(tok, FromEnd): the 1-based place of the last occurrence of
\* tok in s, 0 when there is none (INDEX_NONE).
FindFromEnd(s, tok) ==
    LET hits == {i \in 1..Len(s) : s[i] = tok}
    IN  IF hits = {} THEN 0 ELSE CHOOSE i \in hits : \A j \in hits : j <= i

\* FString::Left for a place returned by FindFromEnd: what precedes it.
LeftOf(s, place) == SubSeq(s, 1, place - 1)

\* FString::Split(tok, nullptr, &right, FromEnd): what follows the last tok.
RightOf(s, place) == SubSeq(s, place + 1, Len(s))

(***************************************************************************)
(* Maps (TMap): functions whose domain is the set of keys present          *)
(***************************************************************************)
EmptyMap == [k \in {} |-> 0]

MapAdd(m, k, v) == [x \in (DOMAIN m) \cup {k} |-> IF x = k THEN v ELSE m[x]]

MapRemove(m, k) == [x \in (DOMAIN m) \ {k} |-> m[x]]

MapContains(m, k) == k \in DOMAIN m

(***************************************************************************)
(* The world the reference resolver runs in                                *)
(***************************************************************************)
NullActor == "nullptr"
NullLevel == "nolevel"

Levels == {"LvlHub", "LvlCave"}

\* Level->GetOuter()->GetName()
OuterName(level) == IF level = "LvlHub" THEN <<"Hub">> ELSE <<"Cave">>

\* Actors that are part of a level, and the name StaticFindObject knows them by
LevelActors == {"HubDoor", "CaveKey"}
ActorLevel(a) == IF a \in {"HubDoor", "Crate"} THEN "LvlHub" ELSE "LvlCave"
ActorName(a) ==
    CASE a = "HubDoor" -> <<"Door">>
      [] a = "CaveKey" -> <<"Key">>
      [] a = "Crate"   -> <<"Crate", "_", "0">>
      [] OTHER         -> <<"Barrel", "_", "0">>

\* Actors spawned at runtime carry a SpudGuid
RuntimeActors == {"Crate", "Barrel"}
Guids == {"G1", "G2"}
ActorGuid(a) == IF a = "Crate" THEN "G1" ELSE "G2"
Actors == LevelActors \cup RuntimeActors

\* The names a level may be given through AssignNameToLevel
AssignableNames ==
    { <<"Game", "/", "Cave">>, <<"Hub", "_LevelInstance_", "4">> }

\* Level reference strings and actor reference strings found in stored data
LevelRefStrings ==
    { EmptyString, <<"Cave">>, <<"Hub", "_LevelInstance_", "4">>, <<"Gone">> }

ActorRefStrings ==
    { EmptyString, <<"Key">>, <<"{", "G1", "}">>, <<"{", "zz", "}">> }

VARIABLES
    WorldLevels,           \* the levels of the world (World->GetLevels())
    RuntimeObjectsByGuid,  \* USpudState::RuntimeObjectsByGuid
    WorldLevelsMap,        \* USpudState::WorldLevelsMap
    WorldLevelsToName,     \* USpudState::WorldLevelsToName
    PatchNamesMapping,     \* USpudState::PatchNamesMapping
    refCall                \* the last reference call and what it produced

refVars == << WorldLevels, RuntimeObjectsByGuid, WorldLevelsMap,
              WorldLevelsToName, PatchNamesMapping, refCall >>

VARIABLES
    RuntimeClasses,   \* the reflected classes of the running build
    LiveObj,          \* the live root object: its class and its values
    SaveData,         \* the global metadata and the record of the object
    loaded,           \* this process began by loading the save (LoadFromArchive)
    storeCall,        \* the object and the classes as they were at the store
    restoreCall       \* the last restore: the object before it, and its trace

propVars == <<RuntimeClasses, LiveObj, SaveData, loaded, storeCall, restoreCall>>

VARIABLES
    ActorObjs,        \* the live actors of the level that is restored
    threads,          \* what each thread of the host is doing in USpudState
    LevelMutex,       \* FSpudLevelData::Mutex of each level: the thread holding it
    opCall            \* the last migration call, and the one before it

VARIABLES
    CustomData,       \* the USpudStateCustomData handed to a callback
    Containers,       \* the array, the set and the map of the game object
    custCall          \* the last call on the custom data, and its result

custVars == <<CustomData, Containers, custCall>>

lvlVars == <<ActorObjs, threads, LevelMutex, opCall, custVars>>

vars == <<WorldLevels, RuntimeObjectsByGuid, WorldLevelsMap, WorldLevelsToName,
          PatchNamesMapping, refCall,
          RuntimeClasses, LiveObj, SaveData, loaded, storeCall, restoreCall,
          ActorObjs, threads, LevelMutex, opCall,
          CustomData, Containers, custCall>>

\* No call of a migration entry point was made yet
NoOpCall == [Op |-> "None", Count |-> 0, Restores |-> 0]

\* No custom data was handed to a callback
InitCustIdle ==
    /\ CustomData = <<>>
    /\ Containers = <<>>
    /\ custCall = <<>>

\* A state of no actors, no threads inside USpudState, every mutex free
InitLvlIdle ==
    /\ ActorObjs = <<>>
    /\ threads = <<>>
    /\ LevelMutex = <<>>
    /\ opCall = NoOpCall
    /\ InitCustIdle


(***************************************************************************)
(* SpudPropertyUtil::FWorldReferenceLookups: four pointers to maps.  A     *)
(* pointer is a record: IsNull, and the map it points to when it is not.   *)
(***************************************************************************)
NullPtr == [IsNull |-> TRUE, Map |-> EmptyMap]

PtrTo(m) == [IsNull |-> FALSE, Map |-> m]

\* The struct as default-constructed: every member is nullptr
FWorldReferenceLookups ==
    [ RuntimeObjectMap    |-> NullPtr,
      WorldLevelsMap      |-> NullPtr,
      WorldLevelToNameMap |-> NullPtr,
      PatchNamesMapping   |-> NullPtr ]

\* USpudState::GetWorldReferenceLookups over the three maps it is given:
\* it sets three of the four members and leaves PatchNamesMapping as
\* default-constructed.
WorldReferenceLookupsOf(runtimeObjects, levelsMap, levelsToName) ==
    [ FWorldReferenceLookups EXCEPT
        !.RuntimeObjectMap    = PtrTo(runtimeObjects),
        !.WorldLevelsMap      = PtrTo(levelsMap),
        !.WorldLevelToNameMap = PtrTo(levelsToName) ]

GetWorldReferenceLookups ==
    WorldReferenceLookupsOf(RuntimeObjectsByGuid, WorldLevelsMap, WorldLevelsToName)

(***************************************************************************)
(* FGuid <-> FString, EGuidFormats::DigitsWithHyphensInBraces              *)
(***************************************************************************)
InvalidGuid == "invalid"

GuidToString(g) == <<"{", g, "}">>

\* FGuid::ParseExact: the digits between an opening and a closing brace
ParseExact(s) ==
    IF Len(s) = 3 /\ s[1] = "{" /\ s[3] = "}" /\ s[2] \in Guids
    THEN s[2] ELSE InvalidGuid

\* StaticFindObject(AActor::StaticClass(), Level, Name)
StaticFindObject(level, name) ==
    LET found == {a \in LevelActors : ActorLevel(a) = level /\ ActorName(a) = name}
    IN  IF found = {} THEN NullActor ELSE CHOOSE a \in found : TRUE

(***************************************************************************)
(* ptr->Find(key) on a TMap<FString, FString>*.  Through a null pointer    *)
(* the call is undefined behaviour: the build may fault, may find nothing, *)
(* or may read any name out of whatever memory it looks at.                *)
(***************************************************************************)
FindResult(crashed, found, value) ==
    [Crashed |-> crashed, Found |-> found, Value |-> value]

PatchNamesFind(ptr, key) ==
    IF ptr.IsNull
    THEN {FindResult(TRUE, FALSE, EmptyString), FindResult(FALSE, FALSE, EmptyString)}
         \cup {FindResult(FALSE, TRUE, n) : n \in AssignableNames}
    ELSE IF MapContains(ptr.Map, key)
         THEN {FindResult(FALSE, TRUE, ptr.Map[key])}
         ELSE {FindResult(FALSE, FALSE, EmptyString)}

LevelResult(crashed, level, log) ==
    [Crashed |-> crashed, Level |-> level, Log |-> log]

LevelsMapFind(map, name) == IF MapContains(map, name) THEN map[name] ELSE NullLevel

\* SpudPropertyUtil::GetReferencedActor, lines 583-628: the level the name
\* is looked up in.
ResolveReferencedLevel(LevelRefString, Lookups, Level) ==
    IF ~IsEmpty(LevelRefString) /\ ~Lookups.WorldLevelsMap.IsNull
    THEN LET map == Lookups.WorldLevelsMap.Map
         IN  IF MapContains(map, LevelRefString)
             THEN {LevelResult(FALSE, map[LevelRefString], <<>>)}
             ELSE LET levelInstStart == FindFromEnd(LevelRefString, "_LevelInstance_")
                  IN  IF levelInstStart # 0
                      THEN LET newLevelName == LeftOf(LevelRefString, levelInstStart)
                           IN  { IF p.Crashed
                                 THEN LevelResult(TRUE, NullLevel, <<"Warning">>)
                                 ELSE LevelResult(FALSE,
                                        LevelsMapFind(map, IF p.Found THEN p.Value ELSE newLevelName),
                                        <<"Warning">>)
                                 : p \in PatchNamesFind(Lookups.PatchNamesMapping, newLevelName) }
                      ELSE { IF p.Crashed
                             THEN LevelResult(TRUE, NullLevel, <<>>)
                             ELSE LevelResult(FALSE,
                                    IF p.Found THEN LevelsMapFind(map, p.Value) ELSE NullLevel,
                                    <<>>)
                             : p \in PatchNamesFind(Lookups.PatchNamesMapping, LevelRefString) }
    ELSE {LevelResult(FALSE, Level, <<>>)}

ActorResult(crashed, actor, log) ==
    [Crashed |-> crashed, Actor |-> actor, Log |-> log]

\* SpudPropertyUtil::GetReferencedActor, lines 581-632: an actor of a level,
\* found by its name
ReferencedLevelActor(LevelRefString, ActorRefString, Lookups, Level) ==
    { IF r.Crashed
      THEN ActorResult(TRUE, NullActor, r.Log)
      ELSE IF r.Level # NullLevel
           THEN LET Obj == StaticFindObject(r.Level, ActorRefString)
                IN  IF Obj # NullActor
                    THEN ActorResult(FALSE, Obj, r.Log)
                    ELSE ActorResult(FALSE, NullActor, r.Log \o <<"Error">>)
           ELSE ActorResult(FALSE, NullActor, r.Log \o <<"Error">>)
      : r \in ResolveReferencedLevel(LevelRefString, Lookups, Level) }

\* SpudPropertyUtil::GetReferencedActor, lines 553-579: a runtime object,
\* found by its GUID
ReferencedRuntimeActor(ActorRefString, Lookups) ==
    IF ~Lookups.RuntimeObjectMap.IsNull
    THEN LET Guid == ParseExact(ActorRefString)
         IN  IF Guid # InvalidGuid
             THEN IF MapContains(Lookups.RuntimeObjectMap.Map, Guid)
                  THEN {ActorResult(FALSE, Lookups.RuntimeObjectMap.Map[Guid], <<>>)}
                  ELSE {ActorResult(FALSE, NullActor, <<"Error">>)}
             ELSE {ActorResult(FALSE, NullActor, <<"Error">>)}
    ELSE {ActorResult(FALSE, NullActor, <<"Error">>)}

\* The call without its test of an empty actor reference
GetReferencedActor_NoEmptyTest(LevelRefString, ActorRefString, Lookups, Level) ==
    IF StartsWith(ActorRefString, "{")
    THEN ReferencedRuntimeActor(ActorRefString, Lookups)
    ELSE ReferencedLevelActor(LevelRefString, ActorRefString, Lookups, Level)

\* The call taking every reference for the name of an actor of a level
GetReferencedActor_NamesOnly(LevelRefString, ActorRefString, Lookups, Level) ==
    IF IsEmpty(ActorRefString)
    THEN {ActorResult(FALSE, NullActor, <<>>)}
    ELSE ReferencedLevelActor(LevelRefString, ActorRefString, Lookups, Level)

\* SpudPropertyUtil::GetReferencedActor: the set of outcomes the call can
\* have (one outcome wherever the behaviour is defined).
GetReferencedActor(LevelRefString, ActorRefString, Lookups, Level) ==
    IF IsEmpty(ActorRefString)
    THEN {ActorResult(FALSE, NullActor, <<>>)}
    ELSE IF StartsWith(ActorRefString, "{")
    THEN ReferencedRuntimeActor(ActorRefString, Lookups)
    ELSE ReferencedLevelActor(LevelRefString, ActorRefString, Lookups, Level)

(***************************************************************************)
(* Encoding.  SpudPropertyUtil::GetActorReferenceString is declared in     *)
(* SpudPropertyUtil.h; its body follows the design's encode rule.          *)
(***************************************************************************)
RefStrings(ret, levelRef, actorRef) ==
    [Ret |-> ret, LevelRef |-> levelRef, ActorRef |-> actorRef]

SpudPropertyUtil_GetActorReferenceString(Actor, Lookups) ==
    IF Actor = NullActor
    THEN RefStrings(TRUE, EmptyString, EmptyString)
    ELSE IF Actor \in RuntimeActors
    THEN RefStrings(TRUE, EmptyString, GuidToString(ActorGuid(Actor)))
    ELSE IF ~Lookups.WorldLevelToNameMap.IsNull
            /\ MapContains(Lookups.WorldLevelToNameMap.Map, ActorLevel(Actor))
    THEN RefStrings(TRUE, Lookups.WorldLevelToNameMap.Map[ActorLevel(Actor)], ActorName(Actor))
    ELSE RefStrings(FALSE, EmptyString, EmptyString)

\* USpudState::GetActorReferenceString
GetActorReferenceString(ActorToReference, Lookups) ==
    IF ActorToReference = NullActor
    THEN RefStrings(FALSE, EmptyString, EmptyString)
    ELSE LET r == SpudPropertyUtil_GetActorReferenceString(ActorToReference, Lookups)
         IN  IF ~r.Ret THEN RefStrings(FALSE, r.LevelRef, r.ActorRef) ELSE r

\* USpudState::GetReferenceStringActor.  ReferencingLevel is
\* ReferencingActor->GetLevel() when there is a referencing actor.
GetReferenceStringActor(LevelReferenceString, ActorReferenceString, ReferencingActor, Lookups) ==
    IF IsEmpty(ActorReferenceString)
    THEN {ActorResult(FALSE, NullActor, <<>>)}
    ELSE IF ReferencingActor = NullActor
    THEN {ActorResult(FALSE, NullActor, <<"Warning">>)}
    ELSE { IF r.Crashed \/ r.Actor # NullActor
           THEN r
           ELSE ActorResult(FALSE, NullActor, r.Log \o <<"Warning">>)
           : r \in GetReferencedActor(LevelReferenceString, ActorReferenceString,
                                      Lookups, ActorLevel(ReferencingActor)) }

(***************************************************************************)
(* Level names and the per-pass level cache                                *)
(***************************************************************************)
\* USpudState::GetLevelName
GetLevelName(Level, levelsToName) ==
    IF Level = NullLevel
    THEN EmptyString
    ELSE IF MapContains(levelsToName, Level)
         THEN levelsToName[Level]
         ELSE OuterName(Level)

\* The order World->GetLevels() lists the levels in
LevelOrder == <<"LvlHub", "LvlCave">>

LevelCache(levelsMap, levelsToName, toRemove) ==
    [Map |-> levelsMap, ToName |-> levelsToName, ToRemove |-> toRemove]

\* The loop that opens StoreLevel and RestoreLevel: every level of the world
\* with a name enters WorldLevelsMap, and a level without an assigned name is
\* given its own for the length of the pass.
RECURSIVE CacheWorldLevels(_, _, _)
CacheWorldLevels(i, worldLevels, c) ==
    IF i > Len(LevelOrder)
    THEN c
    ELSE LET worldLevel == LevelOrder[i]
             WorldLevelName == GetLevelName(worldLevel, c.ToName)
         IN  IF worldLevel \in worldLevels /\ ~IsEmpty(WorldLevelName)
             THEN CacheWorldLevels(i + 1, worldLevels,
                    IF ~MapContains(c.ToName, worldLevel)
                    THEN LevelCache(MapAdd(c.Map, WorldLevelName, worldLevel),
                                    MapAdd(c.ToName, worldLevel, WorldLevelName),
                                    c.ToRemove \cup {worldLevel})
                    ELSE LevelCache(MapAdd(c.Map, WorldLevelName, worldLevel),
                                    c.ToName, c.ToRemove))
             ELSE CacheWorldLevels(i + 1, worldLevels, c)

\* The closing loop as it would be if it emptied WorldLevelsToName
RemoveLevels_Emptied(levelsToName, toRemove) == EmptyMap

\* The loop that closes both passes: the names lent for the pass are taken back
RemoveLevels(levelsToName, toRemove) ==
    [l \in (DOMAIN levelsToName) \ toRemove |-> levelsToName[l]]

(***************************************************************************)
(* The record of the last reference call                                   *)
(***************************************************************************)
RefCall(op, target, referencing, levelRef, actorRef, known, ret, actor, outcome, log) ==
    [ Op          |-> op,           \* which entry point ran
      Target      |-> target,       \* encode: the actor referred to
      Referencing |-> referencing,  \* decode: the actor holding the reference
      LevelRef    |-> levelRef,
      ActorRef    |-> actorRef,
      KnownGuids  |-> known,        \* the GUIDs of the runtime map at the call
      Ret         |-> ret,          \* encode: the returned flag
      Actor       |-> actor,        \* decode: the returned actor
      Outcome     |-> outcome,      \* "Returned" or "Crashed"
      Log         |-> log ]

NoRefCall ==
    RefCall("None", NullActor, NullActor, EmptyString, EmptyString, {}, FALSE,
            NullActor, "Returned", <<>>)

Running == refCall.Outcome # "Crashed"

OutcomeOf(r) == IF r.Crashed THEN "Crashed" ELSE "Returned"

(***************************************************************************)
(* Operations of USpudState on the reference tables                        *)
(***************************************************************************)
AssignNameToLevel(Level, NameToAssign) ==
    /\ Running
    /\ IF Level # NullLevel
       THEN /\ WorldLevelsToName' = MapAdd(WorldLevelsToName, Level, NameToAssign)
            /\ LET place == FindFromEnd(NameToAssign, "/")
               IN  PatchNamesMapping' =
                     IF place # 0
                     THEN MapAdd(PatchNamesMapping, RightOf(NameToAssign, place), NameToAssign)
                     ELSE PatchNamesMapping
       ELSE UNCHANGED <<WorldLevelsToName, PatchNamesMapping>>
    /\ UNCHANGED <<WorldLevels, RuntimeObjectsByGuid, WorldLevelsMap, refCall>>
    /\ UNCHANGED propVars
    /\ UNCHANGED lvlVars

UnassignNameFromLevel(Level) ==
    /\ Running
    /\ WorldLevelsToName' = MapRemove(WorldLevelsToName, Level)
    /\ UNCHANGED <<WorldLevels, RuntimeObjectsByGuid, WorldLevelsMap,
                   PatchNamesMapping, refCall>>
    /\ UNCHANGED propVars
    /\ UNCHANGED lvlVars

ClearAssignedNameToLevels ==
    /\ Running
    /\ WorldLevelsToName' = EmptyMap
    /\ PatchNamesMapping' = EmptyMap
    /\ UNCHANGED <<WorldLevels, RuntimeObjectsByGuid, WorldLevelsMap, refCall>>
    /\ UNCHANGED propVars
    /\ UNCHANGED lvlVars

\* USpudState::GetActorReferenceString called by the host
EncodeReference(ActorToReference) ==
    /\ Running
    /\ LET r == GetActorReferenceString(ActorToReference, GetWorldReferenceLookups)
       IN  refCall' = RefCall("GetActorReferenceString", ActorToReference, NullActor,
                              r.LevelRef, r.ActorRef, DOMAIN RuntimeObjectsByGuid,
                              r.Ret, NullActor, "Returned", <<>>)
    /\ UNCHANGED <<WorldLevels, RuntimeObjectsByGuid, WorldLevelsMap,
                   WorldLevelsToName, PatchNamesMapping>>
    /\ UNCHANGED propVars
    /\ UNCHANGED lvlVars

\* USpudState::GetReferenceStringActor called by the host
DecodeReference(LevelReferenceString, ActorReferenceString, ReferencingActor) ==
    /\ Running
    /\ \E r \in GetReferenceStringActor(LevelReferenceString, ActorReferenceString,
                                        ReferencingActor, GetWorldReferenceLookups) :
         refCall' = RefCall("GetReferenceStringActor", NullActor, ReferencingActor,
                            LevelReferenceString, ActorReferenceString,
                            DOMAIN RuntimeObjectsByGuid, FALSE, r.Actor,
                            OutcomeOf(r), r.Log)
    /\ UNCHANGED <<WorldLevels, RuntimeObjectsByGuid, WorldLevelsMap,
                   WorldLevelsToName, PatchNamesMapping>>
    /\ UNCHANGED propVars
    /\ UNCHANGED lvlVars

\* RestoreLevelSpawnedActors: every spawned actor of the level data is
\* respawned and entered under its GUID
RespawnAll(runtimeObjects, spawned) ==
    [g \in (DOMAIN runtimeObjects) \cup {ActorGuid(a) : a \in spawned} |->
        IF \E a \in spawned : ActorGuid(a) = g
        THEN CHOOSE a \in spawned : ActorGuid(a) = g
        ELSE runtimeObjects[g]]

\* USpudState::RestoreLevel.  The level data holds the spawned actors
\* SpawnedActors and, for the actor ReferencingActor of the level, one actor
\* reference property stored as (LevelRefString, ActorRefString).
RestoreLevel(Level, SpawnedActors, ReferencingActor, LevelRefString, ActorRefString) ==
    /\ Running
    /\ Level \in WorldLevels
    /\ ActorLevel(ReferencingActor) = Level
    /\ LET c == CacheWorldLevels(1, WorldLevels,
                                 LevelCache(EmptyMap, WorldLevelsToName, {}))
           runtimeObjects == RespawnAll(RuntimeObjectsByGuid, SpawnedActors)
           Lookups == WorldReferenceLookupsOf(runtimeObjects, c.Map, c.ToName)
       IN  \E r \in GetReferencedActor(LevelRefString, ActorRefString, Lookups, Level) :
             /\ RuntimeObjectsByGuid' = runtimeObjects
             /\ refCall' = RefCall("RestoreLevel", NullActor, ReferencingActor,
                                   LevelRefString, ActorRefString,
                                   DOMAIN runtimeObjects, FALSE, r.Actor,
                                   OutcomeOf(r), r.Log)
             /\ IF r.Crashed
                THEN /\ WorldLevelsMap' = c.Map
                     /\ WorldLevelsToName' = c.ToName
                ELSE /\ WorldLevelsMap' = EmptyMap
                     /\ WorldLevelsToName' = RemoveLevels(c.ToName, c.ToRemove)
    /\ UNCHANGED <<WorldLevels, PatchNamesMapping>>
    /\ UNCHANGED propVars
    /\ UNCHANGED lvlVars

\* USpudState::StoreLevel.  The actor ReferencingActor of the level holds one
\* actor reference property whose value is Target.
StoreLevel(Level, ReferencingActor, Target) ==
    /\ Running
    /\ Level \in WorldLevels
    /\ ActorLevel(ReferencingActor) = Level
    /\ LET c == CacheWorldLevels(1, WorldLevels,
                                 LevelCache(EmptyMap, WorldLevelsToName, {}))
           Lookups == WorldReferenceLookupsOf(RuntimeObjectsByGuid, c.Map, c.ToName)
           r == SpudPropertyUtil_GetActorReferenceString(Target, Lookups)
       IN  /\ refCall' = RefCall("StoreLevel", Target, ReferencingActor,
                                 r.LevelRef, r.ActorRef, DOMAIN RuntimeObjectsByGuid,
                                 r.Ret, NullActor, "Returned", <<>>)
           /\ WorldLevelsMap' = EmptyMap
           /\ WorldLevelsToName' = RemoveLevels(c.ToName, c.ToRemove)
    /\ UNCHANGED <<WorldLevels, RuntimeObjectsByGuid, PatchNamesMapping>>
    /\ UNCHANGED propVars
    /\ UNCHANGED lvlVars

(***************************************************************************)
(*                     PROPERTY STORE AND RESTORE                          *)
(*                                                                         *)
(* Reflected properties.  A class is the ordered list of its persistent    *)
(* properties; a custom struct property carries the list of its members.   *)
(***************************************************************************)
Field(name, kind, members) == [Name |-> name, Kind |-> kind, Members |-> members]

IsCustomStructProperty(Property) == Property.Kind = "FStructProperty"

IsNestedUObjectProperty(Property) == Property.Kind = "FObjectProperty"

\* SpudPropertyUtil::IsPropertySupported: an array of custom structs is a
\* property marked for save that the persistence system does not support
IsPropertySupported(Property) == Property.Kind # "FArrayProperty"

\* SpudTypeInfo<T>::EnumType of the value type of each property class
GetPropertyDataType(Property) ==
    CASE Property.Kind = "FByteProperty"   -> "ESST_UInt8"
      [] Property.Kind = "FBoolProperty"   -> "ESST_UInt8"
      [] Property.Kind = "FUInt16Property" -> "ESST_UInt16"
      [] Property.Kind = "FObjectProperty" -> "ESST_UInt32"
      [] OTHER                             -> "ESST_Unknown"

\* sizeof(SpudTypeInfo<T>::StorageType)
StorageBytes(DataType) ==
    CASE DataType = "ESST_UInt8"  -> 1
      [] DataType = "ESST_UInt16" -> 2
      [] DataType = "ESST_UInt32" -> 4
      [] OTHER                    -> 0

\* static_cast<StorageType>(value): a bool is written as a uint8
StorageCast(Property, value) ==
    CASE Property.Kind = "FBoolProperty"   -> IF value # 0 THEN 1 ELSE 0
      [] Property.Kind = "FByteProperty"   -> value % 256
      [] Property.Kind = "FUInt16Property" -> value % 65536
      [] OTHER                             -> value

\* static_cast<ValueType>(Val): the stored uint8 of a bool becomes a bool
ValueCast(Property, Val) ==
    IF Property.Kind = "FBoolProperty" THEN (IF Val # 0 THEN 1 ELSE 0) ELSE Val

\* FArchive << of an unsigned integer of n bytes: little-endian
\* A uint32 is held as the signed integer of the same 32 bits (0xFFFFFFFF is
\* -1), the widest integer the checker has; its four bytes are unchanged.
RECURSIVE ToBytes(_, _)
ToBytes(v, n) == IF n = 0 THEN <<>> ELSE <<v % 256>> \o ToBytes(v \div 256, n - 1)

\* FromBytes as it would read on a reader that swaps bytes: the most
\* significant byte first
RECURSIVE FromBytesBigEndian(_)
FromBytesBigEndian(bs) ==
    IF Len(bs) = 0 THEN 0
    ELSE bs[Len(bs)] + 256 * FromBytesBigEndian(SubSeq(bs, 1, Len(bs) - 1))

RECURSIVE FromBytes(_)
FromBytes(bs) ==
    IF Len(bs) = 0 THEN 0
    ELSE bs[1] + 256 * FromBytes(Tail(bs))

\* The uint32 read from four bytes
UInt32FromBytes(bs) ==
    FromBytes(SubSeq(bs, 1, 3)) + 65536 * 256 * (IF bs[4] >= 128 THEN bs[4] - 256 ELSE bs[4])

(***************************************************************************)
(* The properties classes are built from, and the classes of nested        *)
(* UObjects.  The root class "Foo" changes from build to build; the        *)
(* nested classes are the same in every build.                             *)
(***************************************************************************)
StructMembers ==
    << Field("X", "FBoolProperty", <<>>), Field("Y", "FUInt16Property", <<>>) >>

PropertyPool ==
    { Field("A", "FByteProperty", <<>>),
      Field("B", "FByteProperty", <<>>),
      Field("C", "FUInt16Property", <<>>),
      Field("S", "FStructProperty", StructMembers),
      Field("O", "FObjectProperty", <<>>) }

NestedClasses == {"InnerA", "InnerB"}

\* An asset an object property may point to; UObject::IsAsset
Assets == {"SkinAsset"}

IsAsset(Obj) == Obj \in Assets

\* The persistent properties of the class of a nested object (an asset has none)
NestedClassFields(c) ==
    IF c = "InnerA"
    THEN << Field("A", "FByteProperty", <<>>), Field("Q", "FUInt16Property", <<>>) >>
    ELSE IF c = "InnerB"
    THEN << Field("A", "FByteProperty", <<>>) >>
    ELSE <<>>

NullObject == "None"

\* The longest root class
MaxFields == 3

\* The sequences without repetition of at most n properties of the pool
RECURSIVE FieldLists(_)
FieldLists(n) ==
    IF n = 0
    THEN {<<>>}
    ELSE LET shorter == FieldLists(n - 1)
         IN  shorter \cup
             { Append(fs, f) : fs \in {x \in shorter : Len(x) = n - 1},
                               f \in PropertyPool }

HasRepeat(fs) == \E i, j \in 1..Len(fs) : i < j /\ fs[i].Name = fs[j].Name

Schemas == {fs \in FieldLists(MaxFields) : Len(fs) > 0 /\ ~HasRepeat(fs)}

\* The reflected classes of a build whose root class has the fields fs
ClassesOf(fs) ==
    [c \in {"Foo"} \cup NestedClasses |-> IF c = "Foo" THEN fs ELSE NestedClassFields(c)]

HasField(fs, name) == \E i \in 1..Len(fs) : fs[i].Name = name

(***************************************************************************)
(* Objects.  Vals gives the value of every scalar property by its path     *)
(* from the root object (through struct members and the nested object);    *)
(* Objs gives the class of the object each nested-object property holds,   *)
(* NullObject when it holds none.                                          *)
(***************************************************************************)
ScalarPaths(fs, base) ==
    UNION { IF IsCustomStructProperty(fs[i])
            THEN {base \o <<fs[i].Name, fs[i].Members[j].Name>> :
                     j \in 1..Len(fs[i].Members)}
            ELSE IF IsNestedUObjectProperty(fs[i])
            THEN {}
            ELSE {base \o <<fs[i].Name>>}
          : i \in 1..Len(fs) }

ObjectPaths(fs, base) ==
    {base \o <<fs[i].Name>> : i \in {j \in 1..Len(fs) : IsNestedUObjectProperty(fs[j])}}

\* The property a path of an object of fields fs leads to
RECURSIVE PropertyAt(_, _)
PropertyAt(fs, path) ==
    LET f == fs[CHOOSE i \in 1..Len(fs) : fs[i].Name = path[1]]
    IN  IF Len(path) = 1 THEN f ELSE PropertyAt(f.Members, Tail(path))

NameOrdinal(name) ==
    CASE name = "A" -> 1 [] name = "B" -> 2 [] name = "C" -> 3
      [] name = "X" -> 4 [] name = "Y" -> 5 [] OTHER -> 6

\* The value pattern k gives the property Property at path: patterns differ
\* from one another, and within a pattern no two scalars of an object agree.
PatternValue(Property, path, k) ==
    LET n == NameOrdinal(Property.Name) + 8 * (Len(path) - 1)
    IN  CASE Property.Kind = "FBoolProperty"   -> k % 2
          [] Property.Kind = "FUInt16Property" -> (300 * k + 257 + n) % 65536
          [] OTHER                             -> (37 * k + n) % 256

\* Pattern 0 is what the constructor of a class leaves in a new object
NestedDefaults(c, base) ==
    [p \in ScalarPaths(NestedClassFields(c), base) |->
        PatternValue(PropertyAt(NestedClassFields(c), SubSeq(p, Len(base) + 1, Len(p))),
                     p, 0)]

\* An object of the root class with fields fs, filled with pattern k, whose
\* nested-object properties hold an object of class nested (or none)
MakeObject(fs, k, nested) ==
    LET objs == [p \in ObjectPaths(fs, <<>>) |-> nested]
        inner == IF nested = NullObject
                 THEN {}
                 ELSE UNION {ScalarPaths(NestedClassFields(nested), p) : p \in DOMAIN objs}
    IN  [ Vals |-> [p \in ScalarPaths(fs, <<>>) \cup inner |->
                      IF p \in inner
                      THEN PatternValue(PropertyAt(NestedClassFields(nested), Tail(p)), p, k)
                      ELSE PatternValue(PropertyAt(fs, p), p, k)],
          Objs |-> objs ]

(***************************************************************************)
(* FSpudClassMetadata: the class definitions, the interned property names  *)
(* and the prefix table.  An ID is the place of its entry in the table.    *)
(***************************************************************************)
\* 0xFFFFFFFF, each of them
SPUDDATA_INDEX_NONE == -1
SPUDDATA_PREFIXID_NONE == -1
SPUDDATA_CLASSID_NONE == -1

\* The first place of x in seq, 0 when x is not in it
IndexIn(seq, x) ==
    LET hits == {i \in 1..Len(seq) : seq[i] = x}
    IN  IF hits = {} THEN 0 ELSE CHOOSE i \in hits : \A j \in hits : i <= j

EmptyMeta == [ClassDefs |-> <<>>, PropertyNames |-> <<>>, Prefixes |-> <<>>]

FSpudPropertyDef(PropertyID, PrefixID, DataType) ==
    [PropertyID |-> PropertyID, PrefixID |-> PrefixID, DataType |-> DataType]

FSpudClassDef(ClassName) ==
    [ClassName |-> ClassName, Properties |-> <<>>, RuntimeMatchState |-> "NotChecked"]

\* FSpudClassMetadata::GetClassDef: the place of the definition, 0 for none
GetClassDef(Meta, ClassName) ==
    IndexIn([i \in 1..Len(Meta.ClassDefs) |-> Meta.ClassDefs[i].ClassName], ClassName)

FindOrAddClassDef(Meta, ClassName) ==
    IF GetClassDef(Meta, ClassName) # 0
    THEN Meta
    ELSE [Meta EXCEPT !.ClassDefs = Append(@, FSpudClassDef(ClassName))]

GetPropertyIDFromName(Meta, Name) ==
    LET i == IndexIn(Meta.PropertyNames, Name)
    IN  IF i = 0 THEN SPUDDATA_INDEX_NONE ELSE i

FindOrAddPropertyIDFromName(Meta, Name) ==
    IF IndexIn(Meta.PropertyNames, Name) # 0
    THEN Meta
    ELSE [Meta EXCEPT !.PropertyNames = Append(@, Name)]

\* SpudPropertyUtil::GetNestedPrefix: the prefix so far and the property name
GetNestedPrefixString(PrefixIDSoFar, Prop, Meta) ==
    (IF PrefixIDSoFar = SPUDDATA_PREFIXID_NONE THEN <<>> ELSE Meta.Prefixes[PrefixIDSoFar])
        \o <<Prop.Name>>

GetNestedPrefixID(PrefixIDSoFar, Prop, Meta) ==
    LET i == IndexIn(Meta.Prefixes, GetNestedPrefixString(PrefixIDSoFar, Prop, Meta))
    IN  IF i = 0 THEN SPUDDATA_PREFIXID_NONE ELSE i

\* SpudPropertyUtil::FindOrAddNestedPrefixID: the metadata once the prefix is in it
FindOrAddNestedPrefixID(PrefixIDSoFar, Prop, Meta) ==
    IF GetNestedPrefixID(PrefixIDSoFar, Prop, Meta) # SPUDDATA_PREFIXID_NONE
    THEN Meta
    ELSE [Meta EXCEPT !.Prefixes = Append(@, GetNestedPrefixString(PrefixIDSoFar, Prop, Meta))]

\* FSpudClassDef::PropertyLookup: PrefixID -> (PropertyNameID -> index)
PropertyLookup(ClassDef) ==
    LET Props == ClassDef.Properties
    IN  [pre \in {Props[i].PrefixID : i \in 1..Len(Props)} |->
           [id \in {Props[i].PropertyID : i \in {j \in 1..Len(Props) : Props[j].PrefixID = pre}} |->
              CHOOSE i \in 1..Len(Props) : Props[i].PrefixID = pre /\ Props[i].PropertyID = id]]

\* FSpudClassDef::FindOrAddPropertyIndex
FindPropertyIndex(ClassDef, PropNameID, PrefixID) ==
    LET lookup == PropertyLookup(ClassDef)
    IN  IF MapContains(lookup, PrefixID) /\ MapContains(lookup[PrefixID], PropNameID)
        THEN lookup[PrefixID][PropNameID]
        ELSE 0

AddProperty(ClassDef, PropNameID, PrefixID, DataType) ==
    IF FindPropertyIndex(ClassDef, PropNameID, PrefixID) # 0
    THEN ClassDef
    ELSE [ClassDef EXCEPT !.Properties = Append(@, FSpudPropertyDef(PropNameID, PrefixID, DataType))]

(***************************************************************************)
(* The state a visitor works on: the metadata, the property data of the    *)
(* object record (Data, and the place Pos the reader is at), its offsets   *)
(* table, the live object, the stored-property iterator It (a place in     *)
(* ClassDef.Properties, one past the end when exhausted), and the trace    *)
(* of what was done.                                                       *)
(***************************************************************************)
TraceEvent(ev, path, index) == [Ev |-> ev, Path |-> path, Index |-> index]

Traced(st, ev, path, index) ==
    [st EXCEPT !.Trace = Append(@, TraceEvent(ev, path, index))]

VisitorState(classes, meta, data, offsets, obj, requireSlow, requireFast) ==
    [ Classes     |-> classes,
      Meta        |-> meta,
      Data        |-> data,
      Offsets     |-> offsets,
      Pos         |-> 0,
      Vals        |-> obj.Vals,
      Objs        |-> obj.Objs,
      It          |-> 1,
      bMatches    |-> TRUE,
      Quit        |-> FALSE,
      RequireSlow |-> requireSlow,
      RequireFast |-> requireFast,
      Trace       |-> <<>> ]

\* A visitor: its kind and the class definition it was made for
Visitor(kind, classIdx) == [Kind |-> kind, ClassIdx |-> classIdx]

\* SpudPropertyUtil::RegisterProperty: the property enters the class
\* definition if it is new, and its offset is recorded under its prefix
RegisterProperty(Prop, PrefixID, ClassIdx, st) ==
    LET meta1 == FindOrAddPropertyIDFromName(st.Meta, Prop.Name)
        PropNameID == GetPropertyIDFromName(meta1, Prop.Name)
        def == AddProperty(meta1.ClassDefs[ClassIdx], PropNameID, PrefixID,
                           GetPropertyDataType(Prop))
        Index == FindPropertyIndex(def, PropNameID, PrefixID)
        PropertyOffsets == IF MapContains(st.Offsets, PrefixID)
                           THEN st.Offsets[PrefixID] ELSE EmptyMap
    IN  [st EXCEPT !.Meta = [meta1 EXCEPT !.ClassDefs[ClassIdx] = def],
                   !.Offsets = MapAdd(st.Offsets, PrefixID,
                                      MapAdd(PropertyOffsets, Index, Len(st.Data)))]

\* WritePropertyData as it would be if it wrote the value before it
\* registered the property: the offset recorded is that of the next slot
WritePropertyData_RegistersAfter(Prop, PrefixID, path, ClassIdx, st) ==
    RegisterProperty(Prop, PrefixID, ClassIdx,
        [st EXCEPT !.Data = @ \o ToBytes(StorageCast(Prop, st.Vals[path]),
                                         StorageBytes(GetPropertyDataType(Prop)))])

\* SpudPropertyUtil::WritePropertyData
WritePropertyData(Prop, PrefixID, path, ClassIdx, st) ==
    LET s1 == RegisterProperty(Prop, PrefixID, ClassIdx, st)
        Val == StorageCast(Prop, s1.Vals[path])
    IN  [s1 EXCEPT !.Data = @ \o ToBytes(Val, StorageBytes(GetPropertyDataType(Prop)))]

\* SpudPropertyUtil::WriteNestedUObjectPropertyData: the class ID of the
\* object held, SPUDDATA_CLASSID_NONE when none is
WriteNestedUObjectPropertyData(Prop, PrefixID, path, ClassIdx, st) ==
    LET s1 == RegisterProperty(Prop, PrefixID, ClassIdx, st)
        meta2 == IF s1.Objs[path] = NullObject
                 THEN s1.Meta ELSE FindOrAddClassDef(s1.Meta, s1.Objs[path])
        ClassID == IF s1.Objs[path] = NullObject
                   THEN SPUDDATA_CLASSID_NONE ELSE GetClassDef(meta2, s1.Objs[path])
    IN  [s1 EXCEPT !.Meta = meta2,
                   !.Data = @ \o ToBytes(ClassID, StorageBytes("ESST_UInt32"))]

\* SpudPropertyUtil::StoreProperty
StoreProperty(Property, CurrentPrefixID, cp, ClassIdx, st) ==
    IF IsCustomStructProperty(Property)
    THEN st
    ELSE IF IsNestedUObjectProperty(Property)
    THEN WriteNestedUObjectPropertyData(Property, CurrentPrefixID,
                                        cp \o <<Property.Name>>, ClassIdx, st)
    ELSE WritePropertyData(Property, CurrentPrefixID, cp \o <<Property.Name>>, ClassIdx, st)

(***************************************************************************)
(* Reading                                                                 *)
(***************************************************************************)
\* What ReadPropertyData's local Val holds when the archive could not fill it
UninitialisedValue == 65536

\* FMemoryReader >> of n bytes: past the end the archive goes into error and
\* gives nothing
ArchiveRead(st, n) ==
    IF st.Pos + n <= Len(st.Data)
    THEN [Ok |-> TRUE,
          Val |-> IF n = 4 THEN UInt32FromBytes(SubSeq(st.Data, st.Pos + 1, st.Pos + n))
                  ELSE FromBytes(SubSeq(st.Data, st.Pos + 1, st.Pos + n)),
          Pos |-> st.Pos + n]
    ELSE [Ok |-> FALSE, Val |-> UninitialisedValue, Pos |-> st.Pos]

StoredPropertyTypeMatchesRuntime(RuntimeProperty, StoredProperty) ==
    GetPropertyDataType(RuntimeProperty) = StoredProperty.DataType

\* SpudPropertyUtil::ReadPropertyData
ReadPropertyData(Prop, path, Index, st) ==
    LET a == ArchiveRead(st, StorageBytes(GetPropertyDataType(Prop)))
        s1 == [st EXCEPT !.Pos = a.Pos,
                         !.Vals[path] = IF a.Ok THEN ValueCast(Prop, a.Val) ELSE a.Val]
    IN  IF a.Ok
        THEN Traced(s1, "Read", path, Index)
        ELSE Traced(s1, "ArchiveError", path, Index)

\* SpudPropertyUtil::TryReadPropertyData: TRUE when the property was read
TryReadPropertyData(Prop, StoredProperty) ==
    StoredPropertyTypeMatchesRuntime(Prop, StoredProperty)

IsUnder(q, path) == Len(q) > Len(path) /\ SubSeq(q, 1, Len(path)) = path

\* The live object once the nested-object property at path holds an object
\* of class c: the object it held if that was of class c, a new one if not
SetNestedObject(st, path, c) ==
    IF st.Objs[path] = c
    THEN st
    ELSE LET kept == {q \in DOMAIN st.Vals : ~IsUnder(q, path)}
             made == IF c = NullObject THEN {} ELSE ScalarPaths(NestedClassFields(c), path)
         IN  [st EXCEPT !.Objs[path] = c,
                        !.Vals = [q \in kept \cup made |->
                                    IF q \in made THEN NestedDefaults(c, path)[q]
                                    ELSE st.Vals[q]]]

\* SpudPropertyUtil::ReadNestedUObjectPropertyData
ReadNestedUObjectPropertyData(Prop, path, Index, st) ==
    LET a == ArchiveRead(st, StorageBytes("ESST_UInt32"))
        s1 == [st EXCEPT !.Pos = a.Pos]
    IN  IF ~a.Ok
        THEN Traced(s1, "ArchiveError", path, Index)
        ELSE IF a.Val = SPUDDATA_CLASSID_NONE
        THEN Traced(SetNestedObject(s1, path, NullObject), "Read", path, Index)
        ELSE IF a.Val \in 1..Len(s1.Meta.ClassDefs)
                /\ s1.Meta.ClassDefs[a.Val].ClassName \in NestedClasses
        THEN Traced(SetNestedObject(s1, path, s1.Meta.ClassDefs[a.Val].ClassName),
                    "Read", path, Index)
        ELSE Traced(SetNestedObject(s1, path, NullObject), "Error", path, Index)

\* SpudPropertyUtil::RestoreProperty
RestoreProperty(Property, cp, StoredProperty, Index, st) ==
    LET path == cp \o <<Property.Name>>
    IN  IF IsCustomStructProperty(Property)
        THEN st
        ELSE IF ~TryReadPropertyData(Property, StoredProperty)
        THEN Traced(st, "Error", path, Index)
        ELSE IF IsNestedUObjectProperty(Property)
        THEN ReadNestedUObjectPropertyData(Property, path, Index, st)
        ELSE ReadPropertyData(Property, path, Index, st)

(***************************************************************************)
(* The visitors and the traversal that drives them                         *)
(***************************************************************************)
RECURSIVE VisitPersistentProperties(_, _, _, _, _, _)
RECURSIVE VisitStructMembers(_, _, _, _, _)
RECURSIVE StoreObjectProperties(_, _, _, _)
RECURSIVE RestoreObjectProperties(_, _, _, _)

\* USpudState::StorePropertyVisitor::StoreNestedUObjectIfNeeded
StoreNestedUObjectIfNeeded(Property, CurrentPrefixID, cp, st) ==
    LET path == cp \o <<Property.Name>>
    IN  IF IsNestedUObjectProperty(Property)
           /\ st.Objs[path] # NullObject /\ ~IsAsset(st.Objs[path])
        THEN IF IsAsset(st.Objs[path])
             THEN \* checkf(!Obj->IsAsset(), ...)
                  [Traced(st, "Fatal", path, 0) EXCEPT !.Quit = TRUE]
             ELSE LET meta1 == FindOrAddNestedPrefixID(CurrentPrefixID, Property, st.Meta)
                      NewPrefixID == GetNestedPrefixID(CurrentPrefixID, Property, meta1)
                  IN  StoreObjectProperties(st.Objs[path], NewPrefixID, path,
                                            [st EXCEPT !.Meta = meta1])
        ELSE st

\* StorePropertyVisitor::VisitProperty as it would be if it returned false:
\* the traversal is asked to quit after the property
StorePropertyVisitor_Stops(v, Property, CurrentPrefixID, cp, st) ==
    [StoreProperty(Property, CurrentPrefixID, cp, v.ClassIdx, st) EXCEPT !.Quit = TRUE]

\* USpudState::StorePropertyVisitor::VisitProperty
StorePropertyVisitor_VisitProperty(v, Property, CurrentPrefixID, cp, st) ==
    StoreNestedUObjectIfNeeded(Property, CurrentPrefixID, cp,
        StoreProperty(Property, CurrentPrefixID, cp, v.ClassIdx, st))

\* Obj->GetClass()->ImplementsInterface(USpudObjectCallback::StaticClass())
ImplementsSpudObjectCallback(class) == class \in {"Foo", "InnerA"}

\* RestoreNestedUObjectIfNeeded as it would be if the nested object were
\* handed custom data after its properties, as a root object is
RestoreNestedUObjectIfNeeded_WithCustomData(Property, CurrentPrefixID, cp, st) ==
    LET path == cp \o <<Property.Name>>
    IN  IF IsNestedUObjectProperty(Property) /\ st.Objs[path] # NullObject
        THEN LET IsCallback == ImplementsSpudObjectCallback(st.Objs[path])
                 NewPrefixID == GetNestedPrefixID(CurrentPrefixID, Property, st.Meta)
                 inner == RestoreObjectProperties(st.Objs[path], NewPrefixID, path,
                              IF IsCallback THEN Traced(st, "PreRestore", path, 0) ELSE st)
             IN  [(IF IsCallback
                   THEN Traced(Traced(inner, "CustomData", path, 0), "PostRestore", path, 0)
                   ELSE inner)
                     EXCEPT !.It = st.It, !.Quit = FALSE]
        ELSE st

\* USpudState::RestorePropertyVisitor::RestoreNestedUObjectIfNeeded: the
\* nested object is restored by a visitor of its own, from the same reader,
\* between its SpudPreRestore and its SpudPostRestore when it has callbacks
RestoreNestedUObjectIfNeeded(Property, CurrentPrefixID, cp, st) ==
    LET path == cp \o <<Property.Name>>
    IN  IF IsNestedUObjectProperty(Property) /\ st.Objs[path] # NullObject
        THEN LET IsCallback == ImplementsSpudObjectCallback(st.Objs[path])
                 NewPrefixID == GetNestedPrefixID(CurrentPrefixID, Property, st.Meta)
                 inner == RestoreObjectProperties(st.Objs[path], NewPrefixID, path,
                              IF IsCallback THEN Traced(st, "PreRestore", path, 0) ELSE st)
             IN  [(IF IsCallback THEN Traced(inner, "PostRestore", path, 0) ELSE inner)
                     EXCEPT !.It = st.It, !.Quit = FALSE]
        ELSE st

\* RestoreFastPropertyVisitor::VisitProperty as it would be without the test
\* for custom structs: the stored iterator moves on for a struct as well
RestoreFastPropertyVisitor_AdvancesOnStruct(v, Property, CurrentPrefixID, cp, st) ==
    LET Properties == st.Meta.ClassDefs[v.ClassIdx].Properties
    IN  IF st.It <= Len(Properties)
        THEN RestoreNestedUObjectIfNeeded(Property, CurrentPrefixID, cp,
                 [RestoreProperty(Property, cp, Properties[st.It], st.It, st)
                     EXCEPT !.It = @ + 1])
        ELSE [Traced(st, "Exhausted", cp \o <<Property.Name>>, st.It) EXCEPT !.Quit = TRUE]

\* RestoreFastPropertyVisitor::VisitProperty as it would be without the
\* increment of the stored iterator: every field is decoded with the first
\* stored definition
RestoreFastPropertyVisitor_NeverAdvances(v, Property, CurrentPrefixID, cp, st) ==
    LET Properties == st.Meta.ClassDefs[v.ClassIdx].Properties
    IN  IF st.It <= Len(Properties)
        THEN RestoreNestedUObjectIfNeeded(Property, CurrentPrefixID, cp,
                 RestoreProperty(Property, cp, Properties[st.It], st.It, st))
        ELSE [Traced(st, "Exhausted", cp \o <<Property.Name>>, st.It) EXCEPT !.Quit = TRUE]

\* USpudState::RestoreFastPropertyVisitor::VisitProperty
RestoreFastPropertyVisitor_VisitProperty(v, Property, CurrentPrefixID, cp, st) ==
    LET Properties == st.Meta.ClassDefs[v.ClassIdx].Properties
    IN  IF st.It <= Len(Properties)
        THEN RestoreNestedUObjectIfNeeded(Property, CurrentPrefixID, cp,
                 [RestoreProperty(Property, cp, Properties[st.It], st.It, st)
                     EXCEPT !.It = IF ~IsCustomStructProperty(Property) THEN @ + 1 ELSE @])
        ELSE [Traced(st, "Exhausted", cp \o <<Property.Name>>, st.It) EXCEPT !.Quit = TRUE]

\* USpudState::RestoreSlowPropertyVisitor::VisitProperty
RestoreSlowPropertyVisitor_VisitProperty(v, Property, CurrentPrefixID, cp, st) ==
    LET ClassDef == st.Meta.ClassDefs[v.ClassIdx]
        lookup == PropertyLookup(ClassDef)
        path == cp \o <<Property.Name>>
        PropID == GetPropertyIDFromName(st.Meta, Property.Name)
    IN  IF IsCustomStructProperty(Property)
        THEN st
        ELSE IF ~MapContains(lookup, CurrentPrefixID)
        THEN Traced(st, "Error", path, 0)
        ELSE IF PropID = SPUDDATA_INDEX_NONE
        THEN Traced(st, "Skip", path, 0)
        ELSE IF ~MapContains(lookup[CurrentPrefixID], PropID)
        THEN Traced(st, "Skip", path, 0)
        ELSE LET PropertyIndex == lookup[CurrentPrefixID][PropID]
             IN  IF PropertyIndex < 1 \/ PropertyIndex > Len(ClassDef.Properties)
                 THEN Traced(st, "Error", path, PropertyIndex)
                 ELSE IF ~MapContains(st.Offsets, CurrentPrefixID)
                 THEN Traced(st, "Error", path, PropertyIndex)
                 ELSE IF ~MapContains(st.Offsets[CurrentPrefixID], PropertyIndex)
                 THEN Traced(st, "Error", path, PropertyIndex)
                 ELSE RestoreNestedUObjectIfNeeded(Property, CurrentPrefixID, cp,
                        RestoreProperty(Property, cp, ClassDef.Properties[PropertyIndex],
                                        PropertyIndex,
                                        [st EXCEPT !.Pos = st.Offsets[CurrentPrefixID][PropertyIndex]]))

\* SpudPropertyUtil::StoredMatchesRuntimePropertyVisitor::VisitProperty
StoredMatchesRuntimePropertyVisitor_VisitProperty(v, Property, CurrentPrefixID, cp, st) ==
    LET Properties == st.Meta.ClassDefs[v.ClassIdx].Properties
    IN  IF st.It > Len(Properties)
        THEN [st EXCEPT !.bMatches = FALSE, !.Quit = TRUE]
        ELSE IF IsCustomStructProperty(Property)
        THEN st
        ELSE IF ~StoredPropertyTypeMatchesRuntime(Property, Properties[st.It])
        THEN [st EXCEPT !.bMatches = FALSE, !.Quit = TRUE]
        ELSE [st EXCEPT !.It = @ + 1]

\* PropertyVisitor::VisitProperty: the state after the call; Quit is set when
\* the visitor returned false
VisitProperty(v, Property, CurrentPrefixID, cp, st) ==
    CASE v.Kind = "Store" -> StorePropertyVisitor_VisitProperty(v, Property, CurrentPrefixID, cp, st)
      [] v.Kind = "Fast"  -> RestoreFastPropertyVisitor_VisitProperty(v, Property, CurrentPrefixID, cp, st)
      [] v.Kind = "Slow"  -> RestoreSlowPropertyVisitor_VisitProperty(v, Property, CurrentPrefixID, cp, st)
      [] OTHER            -> StoredMatchesRuntimePropertyVisitor_VisitProperty(v, Property, CurrentPrefixID, cp, st)

\* PropertyVisitor::GetNestedPrefix: the storing visitor adds the prefix to
\* the metadata, the others only look it up
GetNestedPrefix(v, Prop, CurrentPrefixID, Meta) ==
    IF v.Kind = "Store"
    THEN FindOrAddNestedPrefixID(CurrentPrefixID, Prop, Meta)
    ELSE Meta

\* PropertyVisitor::UnsupportedProperty: the storing visitor logs an error,
\* the other visitors keep the default, which does nothing
UnsupportedProperty(v, Property, CurrentPrefixID, cp, st) ==
    IF v.Kind = "Store"
    THEN Traced(st, "Unsupported", cp \o <<Property.Name>>, 0)
    ELSE st

\* SpudPropertyUtil::VisitPersistentProperties over the properties
\* fields[i..] of a class or struct: a property that is not supported is
\* told to the visitor and passed over
VisitPersistentProperties(v, fields, i, PrefixID, cp, st) ==
    IF i > Len(fields) \/ st.Quit
    THEN st
    ELSE VisitPersistentProperties(v, fields, i + 1, PrefixID, cp,
             IF IsPropertySupported(fields[i])
             THEN VisitStructMembers(v, fields[i], PrefixID, cp,
                                     VisitProperty(v, fields[i], PrefixID, cp, st))
             ELSE UnsupportedProperty(v, fields[i], PrefixID, cp, st))

\* ... its step into a custom struct: the members are visited under the
\* prefix of the struct, when the visitor has one for it; st is the state
\* the visit of the struct property itself left
VisitStructMembers(v, Property, PrefixID, cp, st) ==
    IF ~st.Quit /\ IsCustomStructProperty(Property)
    THEN LET meta1 == GetNestedPrefix(v, Property, PrefixID, st.Meta)
             NewPrefixID == GetNestedPrefixID(PrefixID, Property, meta1)
         IN  IF NewPrefixID # SPUDDATA_PREFIXID_NONE
             THEN VisitPersistentProperties(v, Property.Members, 1, NewPrefixID,
                                            cp \o <<Property.Name>>,
                                            [st EXCEPT !.Meta = meta1])
             ELSE [st EXCEPT !.Meta = meta1]
    ELSE st

\* USpudState::StoreObjectProperties (the overload that takes a prefix)
StoreObjectProperties(ClassName, PrefixID, cp, st) ==
    LET meta1 == FindOrAddClassDef(st.Meta, ClassName)
    IN  VisitPersistentProperties(Visitor("Store", GetClassDef(meta1, ClassName)),
                                  st.Classes[ClassName], 1, PrefixID, cp,
                                  [st EXCEPT !.Meta = meta1])

\* StoredMatchesRuntimePropertyVisitor::IsMatch
IsMatch(st) == st.bMatches

\* SpudPropertyUtil::StoredClassDefMatchesRuntime: the class is found by its
\* stored name and its definition is visited without an instance
StoredClassDefMatchesRuntime(ClassIdx, st) ==
    LET ClassName == st.Meta.ClassDefs[ClassIdx].ClassName
    IN  IF ClassName \notin DOMAIN st.Classes
        THEN FALSE
        ELSE IsMatch(VisitPersistentProperties(Visitor("Match", ClassIdx),
                        st.Classes[ClassName], 1, SPUDDATA_PREFIXID_NONE, <<>>,
                        [st EXCEPT !.It = 1, !.bMatches = TRUE, !.Quit = FALSE]))

\* FSpudClassDef::MatchesRuntimeClass: computed once, then answered from the
\* cached RuntimeMatchState
MatchesRuntimeClass(ClassIdx, st) ==
    IF st.Meta.ClassDefs[ClassIdx].RuntimeMatchState = "NotChecked"
    THEN [st EXCEPT !.Meta.ClassDefs[ClassIdx].RuntimeMatchState =
                       IF StoredClassDefMatchesRuntime(ClassIdx, st)
                       THEN "Matching" ELSE "Different"]
    ELSE st

\* USpudState::RestoreObjectPropertiesFast
RestoreObjectPropertiesFast(ClassName, ClassIdx, PrefixID, cp, st) ==
    VisitPersistentProperties(Visitor("Fast", ClassIdx), st.Classes[ClassName], 1,
                              PrefixID, cp,
                              [Traced(st, "FastPath", cp, 0) EXCEPT !.It = 1])

\* USpudState::RestoreObjectPropertiesSlow
RestoreObjectPropertiesSlow(ClassName, ClassIdx, PrefixID, cp, st) ==
    VisitPersistentProperties(Visitor("Slow", ClassIdx), st.Classes[ClassName], 1,
                              PrefixID, cp, Traced(st, "SlowPath", cp, 0))

\* The choice of the path as it would be if bTestRequireFastPath forced the
\* fast path
RestoreByPath_FastWhenRequired(ClassName, ClassIdx, PrefixID, cp, st) ==
    LET matched == st.Meta.ClassDefs[ClassIdx].RuntimeMatchState = "Matching"
        bUseFastPath == (matched \/ st.RequireFast) /\ ~st.RequireSlow
    IN  IF bUseFastPath
        THEN RestoreObjectPropertiesFast(ClassName, ClassIdx, PrefixID, cp, st)
        ELSE RestoreObjectPropertiesSlow(ClassName, ClassIdx, PrefixID, cp,
                IF ~matched /\ st.RequireFast THEN Traced(st, "Error", cp, 0) ELSE st)

\* USpudState::RestoreObjectProperties, lines 901-917: st is the state with
\* the answer of MatchesRuntimeClass cached in the class definition
RestoreByPath(ClassName, ClassIdx, PrefixID, cp, st) ==
    LET matched == st.Meta.ClassDefs[ClassIdx].RuntimeMatchState = "Matching"
        bUseFastPath == matched /\ ~st.RequireSlow
    IN  IF bUseFastPath
        THEN RestoreObjectPropertiesFast(ClassName, ClassIdx, PrefixID, cp, st)
        ELSE RestoreObjectPropertiesSlow(ClassName, ClassIdx, PrefixID, cp,
                IF ~matched /\ st.RequireFast THEN Traced(st, "Error", cp, 0) ELSE st)

\* USpudState::RestoreObjectProperties (the overload that takes a reader)
RestoreObjectProperties(ClassName, PrefixID, cp, st) ==
    IF GetClassDef(st.Meta, ClassName) = 0
    THEN Traced(st, "Error", cp, 0)
    ELSE RestoreByPath(ClassName, GetClassDef(st.Meta, ClassName), PrefixID, cp,
                       MatchesRuntimeClass(GetClassDef(st.Meta, ClassName), st))

(***************************************************************************)
(* The state of the property store                                         *)
(***************************************************************************)
Object(class, obj) == [Class |-> class, Vals |-> obj.Vals, Objs |-> obj.Objs]

NoStoreCall == [Done |-> FALSE, Obj |-> Object("Foo", [Vals |-> EmptyMap, Objs |-> EmptyMap]),
                Classes |-> EmptyMap]

NoRestoreCall ==
    [Done |-> FALSE, Count |-> 0,
     Pre |-> Object("Foo", [Vals |-> EmptyMap, Objs |-> EmptyMap]),
     RequireSlow |-> FALSE, RequireFast |-> FALSE, Trace |-> <<>>]

\* How many objects the record is restored into after a load
MaxRestores == 2

EmptySaveData ==
    [Meta |-> EmptyMeta, Stored |-> FALSE, Data |-> <<>>, Offsets |-> EmptyMap]

\* The classes an object property of a root class with fields fs may hold
NestedChoices(fs) == IF HasField(fs, "O") THEN NestedClasses \cup {NullObject} ELSE {NullObject}

\* The value patterns an object is stored with
StoredPatterns == {1, 2}

(***************************************************************************)
(* Operations of USpudState on the global object                           *)
(***************************************************************************)
\* The save once the store that ended in the visitor state st has written
\* the record of the object
StoredRecord(st) ==
    [Meta |-> st.Meta, Stored |-> TRUE, Data |-> st.Data, Offsets |-> st.Offsets]

\* USpudState::StoreGlobalObject: StoreObjectProperties empties the data of
\* the record (not its offsets table) and writes the object into it.  The
\* save is written once.
StoreGlobalObject ==
    /\ ~SaveData.Stored
    /\ SaveData' = StoredRecord(
           StoreObjectProperties(LiveObj.Class, SPUDDATA_PREFIXID_NONE, <<>>,
               VisitorState(RuntimeClasses, SaveData.Meta, <<>>, SaveData.Offsets,
                            LiveObj, FALSE, FALSE)))
    /\ storeCall' = [Done |-> TRUE, Obj |-> LiveObj, Classes |-> RuntimeClasses]
    /\ UNCHANGED <<RuntimeClasses, LiveObj, loaded, restoreCall>>
    /\ UNCHANGED refVars
    /\ UNCHANGED lvlVars

\* FSpudSaveData::ReadFromArchive: the class definitions are read back, none
\* of them checked against the running build yet
ReadFromArchive(Meta) ==
    [Meta EXCEPT !.ClassDefs =
        [i \in 1..Len(Meta.ClassDefs) |->
            [Meta.ClassDefs[i] EXCEPT !.RuntimeMatchState = "NotChecked"]]]

\* USpudState::LoadFromArchive in a new process, whose build has the classes
\* classes; obj is the object the game made for the saved one
LoadFromArchive(classes, obj) ==
    /\ SaveData.Stored
    /\ ~loaded
    /\ loaded' = TRUE
    /\ RuntimeClasses' = classes
    /\ LiveObj' = obj
    /\ SaveData' = [SaveData EXCEPT !.Meta = ReadFromArchive(SaveData.Meta)]
    /\ restoreCall' = NoRestoreCall
    /\ UNCHANGED storeCall
    /\ UNCHANGED refVars
    /\ UNCHANGED lvlVars

\* What RestoreObjectProperties makes of the object obj and the save
RestoredState(obj, requireSlow, requireFast) ==
    RestoreObjectProperties(obj.Class, SPUDDATA_PREFIXID_NONE, <<>>,
        VisitorState(RuntimeClasses, SaveData.Meta, SaveData.Data, SaveData.Offsets,
                     obj, requireSlow, requireFast))

\* The restore that ended in the visitor state st has written the live
\* object and cached its answers in the metadata
RestoredInto(st) ==
    /\ LiveObj' = [LiveObj EXCEPT !.Vals = st.Vals, !.Objs = st.Objs]
    /\ SaveData' = [SaveData EXCEPT !.Meta = st.Meta]
    /\ restoreCall' = [Done |-> TRUE, Count |-> restoreCall.Count + 1,
                       Pre |-> LiveObj,
                       RequireSlow |-> st.RequireSlow, RequireFast |-> st.RequireFast,
                       Trace |-> st.Trace]

\* USpudState::RestoreGlobalObject with the test flags set as given; the
\* loaded object is restored once
RestoreGlobalObject(requireSlow, requireFast) ==
    /\ loaded
    /\ ~restoreCall.Done
    /\ RestoredInto(RestoredState(LiveObj, requireSlow, requireFast))
    /\ UNCHANGED <<RuntimeClasses, loaded, storeCall>>
    /\ UNCHANGED refVars
    /\ UNCHANGED lvlVars

\* The settings of bTestRequireSlowPath and bTestRequireFastPath
TestFlags == {<<FALSE, FALSE>>, <<TRUE, FALSE>>, <<FALSE, TRUE>>}

(***************************************************************************)
(* Spec: one object is stored, the game is loaded by a build whose root    *)
(* class may have other fields, and the object is restored                 *)
(***************************************************************************)
InitRefIdle ==
    /\ WorldLevels = {}
    /\ RuntimeObjectsByGuid = EmptyMap
    /\ WorldLevelsMap = EmptyMap
    /\ WorldLevelsToName = EmptyMap
    /\ PatchNamesMapping = EmptyMap
    /\ refCall = NoRefCall

Init ==
    /\ InitRefIdle
    /\ InitLvlIdle
    /\ \E fs \in Schemas, k \in StoredPatterns :
         \E nested \in NestedChoices(fs) :
           /\ RuntimeClasses = ClassesOf(fs)
           /\ LiveObj = Object("Foo", MakeObject(fs, k, nested))
    /\ SaveData = EmptySaveData
    /\ loaded = FALSE
    /\ storeCall = NoStoreCall
    /\ restoreCall = NoRestoreCall

\* The objects a new process may hold before the restore: as constructed,
\* with no nested object or with one of class InnerB
FreshChoices(fs) == IF HasField(fs, "O") THEN {NullObject, "InnerB"} ELSE {NullObject}

\* The root class as the next build may declare it: unchanged, with one
\* field added, with one field removed, or with two fields exchanged
InsertAt(fs, i, f) == SubSeq(fs, 1, i - 1) \o <<f>> \o SubSeq(fs, i, Len(fs))

RemoveAt(fs, i) == SubSeq(fs, 1, i - 1) \o SubSeq(fs, i + 1, Len(fs))

SwapAt(fs, i, j) == [fs EXCEPT ![i] = fs[j], ![j] = fs[i]]

Added(fs) ==
    IF Len(fs) >= MaxFields THEN {}
    ELSE {InsertAt(fs, i, f) : i \in 1..(Len(fs) + 1),
                               f \in {g \in PropertyPool : ~HasField(fs, g.Name)}}

Removed(fs) == IF Len(fs) <= 1 THEN {} ELSE {RemoveAt(fs, i) : i \in 1..Len(fs)}

Reordered(fs) == {SwapAt(fs, p[1], p[2]) : p \in {q \in (1..Len(fs)) \X (1..Len(fs)) : q[1] < q[2]}}

Evolutions(fs) == {fs} \cup Added(fs) \cup Removed(fs) \cup Reordered(fs)

LoadGame ==
    \E fs \in Evolutions(RuntimeClasses["Foo"]) :
      \E nested \in FreshChoices(fs) :
        LoadFromArchive(ClassesOf(fs), Object("Foo", MakeObject(fs, 0, nested)))

Restore ==
    \E flags \in TestFlags : RestoreGlobalObject(flags[1], flags[2])

Next ==
    \/ StoreGlobalObject
    \/ LoadGame
    \/ Restore

Spec == Init /\ [][Next]_vars

(***************************************************************************)
(* SpecRef: the host names levels, stores and restores levels, and encodes *)
(* and decodes actor references, in a world of one or two levels           *)
(***************************************************************************)
InitPropIdle ==
    /\ RuntimeClasses = ClassesOf(<<>>)
    /\ LiveObj = NoStoreCall.Obj
    /\ SaveData = EmptySaveData
    /\ loaded = FALSE
    /\ storeCall = NoStoreCall
    /\ restoreCall = NoRestoreCall

InitRef ==
    /\ WorldLevels \in (SUBSET Levels) \ {{}}
    /\ RuntimeObjectsByGuid = EmptyMap
    /\ WorldLevelsMap = EmptyMap
    /\ WorldLevelsToName = EmptyMap
    /\ PatchNamesMapping = EmptyMap
    /\ refCall = NoRefCall
    /\ InitPropIdle
    /\ InitLvlIdle

\* The actors of the levels of the world
WorldActors == {a \in Actors : ActorLevel(a) \in WorldLevels}

AssignName ==
    \E Level \in WorldLevels \cup {NullLevel}, NameToAssign \in AssignableNames :
        AssignNameToLevel(Level, NameToAssign)

UnassignName == \E Level \in WorldLevels : UnassignNameFromLevel(Level)

Encode == \E ActorToReference \in WorldActors \cup {NullActor} : EncodeReference(ActorToReference)

Decode ==
    \E LevelReferenceString \in LevelRefStrings, ActorReferenceString \in ActorRefStrings,
       ReferencingActor \in (WorldActors \cap LevelActors) \cup {NullActor} :
        DecodeReference(LevelReferenceString, ActorReferenceString, ReferencingActor)

RestoreALevel ==
    \E Level \in WorldLevels :
      \E SpawnedActors \in SUBSET {a \in RuntimeActors : ActorLevel(a) = Level},
         ReferencingActor \in LevelActors,
         LevelRefString \in LevelRefStrings, ActorRefString \in ActorRefStrings :
        RestoreLevel(Level, SpawnedActors, ReferencingActor, LevelRefString, ActorRefString)

StoreALevel ==
    \E Level \in WorldLevels, ReferencingActor \in LevelActors,
       Target \in WorldActors \cup {NullActor} :
        StoreLevel(Level, ReferencingActor, Target)

NextRef ==
    \/ AssignName
    \/ UnassignName
    \/ ClearAssignedNameToLevels
    \/ Encode
    \/ Decode
    \/ RestoreALevel
    \/ StoreALevel

SpecRef == InitRef /\ [][NextRef]_vars

(***************************************************************************)
(* SpecRename: the build has a second root class, Bar.  An object of class *)
(* Foo is stored, the save is loaded and restored, classes of the save are *)
(* renamed, and the game restores the record into another object.          *)
(***************************************************************************)
\* FSpudClassMetadata::RenameClass: the definition is renamed in place
Metadata_RenameClass(Meta, OldClassName, NewClassName) ==
    [Meta EXCEPT !.ClassDefs =
        [i \in 1..Len(Meta.ClassDefs) |->
            IF Meta.ClassDefs[i].ClassName = OldClassName
            THEN [Meta.ClassDefs[i] EXCEPT !.ClassName = NewClassName]
            ELSE Meta.ClassDefs[i]]]

\* The class takes the new name whenever the save knows either name
Metadata_RenameClass_FoundEither(Meta, OldClassName, NewClassName) ==
    GetClassDef(Meta, OldClassName) # 0 \/ GetClassDef(Meta, NewClassName) # 0

\* FSpudClassMetadata::RenameClass: whether a definition was renamed
Metadata_RenameClass_Changed(Meta, OldClassName, NewClassName) ==
    GetClassDef(Meta, OldClassName) # 0

\* The place of a prefix in the prefix table; the empty prefix has no place
PrefixIDOf(Meta, Prefix) ==
    IF IsEmpty(Prefix) \/ IndexIn(Meta.Prefixes, Prefix) = 0
    THEN SPUDDATA_PREFIXID_NONE
    ELSE IndexIn(Meta.Prefixes, Prefix)

FindOrAddPrefixID(Meta, Prefix) ==
    IF IsEmpty(Prefix) \/ IndexIn(Meta.Prefixes, Prefix) # 0
    THEN Meta
    ELSE [Meta EXCEPT !.Prefixes = Append(@, Prefix)]

\* The place in the class definition of the stored property of that name
\* under that prefix, 0 for none
StoredPropertyPlace(Meta, ClassName, PropertyName, Prefix) ==
    IF GetClassDef(Meta, ClassName) = 0
         \/ GetPropertyIDFromName(Meta, PropertyName) = SPUDDATA_INDEX_NONE
         \/ (~IsEmpty(Prefix) /\ PrefixIDOf(Meta, Prefix) = SPUDDATA_PREFIXID_NONE)
    THEN 0
    ELSE FindPropertyIndex(Meta.ClassDefs[GetClassDef(Meta, ClassName)],
                           GetPropertyIDFromName(Meta, PropertyName),
                           PrefixIDOf(Meta, Prefix))

\* The metadata once the stored property at place of the class refers to the
\* name and the prefix given, both already in the tables of Named
WithPropertyNamed(Named, ClassName, place, NewPropertyName, NewPrefix) ==
    [Named EXCEPT !.ClassDefs[GetClassDef(Named, ClassName)].Properties[place] =
        [@ EXCEPT !.PropertyID = GetPropertyIDFromName(Named, NewPropertyName),
                  !.PrefixID = PrefixIDOf(Named, NewPrefix)]]

\* The rename done by writing the new name over the entry of the old one
Metadata_RenameProperty_InPlace(Meta, ClassName, OldPropertyName, NewPropertyName, OldPrefix, NewPrefix) ==
    IF StoredPropertyPlace(Meta, ClassName, OldPropertyName, OldPrefix) = 0
    THEN Meta
    ELSE [Meta EXCEPT !.PropertyNames[GetPropertyIDFromName(Meta, OldPropertyName)] =
                          NewPropertyName]

\* FSpudClassMetadata::RenameProperty: the entry of the old name stays where
\* it is, the new name is found or added, and the stored property of the
\* class refers to it
Metadata_RenameProperty(Meta, ClassName, OldPropertyName, NewPropertyName, OldPrefix, NewPrefix) ==
    IF StoredPropertyPlace(Meta, ClassName, OldPropertyName, OldPrefix) = 0
    THEN Meta
    ELSE WithPropertyNamed(
             FindOrAddPrefixID(FindOrAddPropertyIDFromName(Meta, NewPropertyName), NewPrefix),
             ClassName, StoredPropertyPlace(Meta, ClassName, OldPropertyName, OldPrefix),
             NewPropertyName, NewPrefix)

\* FSpudClassMetadata::RenameProperty: whether a stored property was renamed
Metadata_RenameProperty_Changed(Meta, ClassName, OldPropertyName, OldPrefix) ==
    StoredPropertyPlace(Meta, ClassName, OldPropertyName, OldPrefix) # 0

\* The record of a migration call: its arguments, what it returned, the
\* metadata before and after it, how many restores were made before it, and
\* the call before it
MigrationCall(Op, Args, Ret, Pre, Post) ==
    [Op |-> Op, Args |-> Args, Ret |-> Ret, Pre |-> Pre, Post |-> Post,
     Count |-> opCall.Count + 1, Restores |-> restoreCall.Count,
     Prev |-> IF opCall.Op = "None"
              THEN [Op |-> "None"]
              ELSE [Op |-> opCall.Op, Args |-> opCall.Args, Ret |-> opCall.Ret]]

\* How many migration calls the game makes on a loaded save
MaxRenames == 2

\* USpudState::RenameClass once the global metadata is Post (the save holds
\* no level data)
ClassRenamed(OldClassName, NewClassName, Changed, Post) ==
    /\ SaveData' = [SaveData EXCEPT !.Meta = Post]
    /\ opCall' = MigrationCall("RenameClass", <<OldClassName, NewClassName>>, Changed,
                               SaveData.Meta, Post)

\* USpudState::RenameClass, for a new name the save does not use next to
\* the old one
RenameClass(OldClassName, NewClassName) ==
    /\ loaded
    /\ opCall.Count < MaxRenames
    /\ GetClassDef(SaveData.Meta, OldClassName) = 0
         \/ GetClassDef(SaveData.Meta, NewClassName) = 0
    /\ ClassRenamed(OldClassName, NewClassName,
                    Metadata_RenameClass_Changed(SaveData.Meta, OldClassName, NewClassName),
                    Metadata_RenameClass(SaveData.Meta, OldClassName, NewClassName))
    /\ UNCHANGED <<RuntimeClasses, LiveObj, loaded, storeCall, restoreCall>>
    /\ UNCHANGED refVars
    /\ UNCHANGED <<ActorObjs, threads, LevelMutex, custVars>>

\* USpudState::RenameProperty once the global metadata is Post
PropertyRenamed(Args, Changed, Post) ==
    /\ SaveData' = [SaveData EXCEPT !.Meta = Post]
    /\ opCall' = MigrationCall("RenameProperty", Args, Changed, SaveData.Meta, Post)

\* USpudState::RenameProperty, for a new name the class does not store a
\* property under yet
RenameProperty(ClassName, OldPropertyName, NewPropertyName, OldPrefix, NewPrefix) ==
    /\ loaded
    /\ opCall.Count < MaxRenames
    /\ StoredPropertyPlace(SaveData.Meta, ClassName, NewPropertyName, NewPrefix) = 0
    /\ PropertyRenamed(<<ClassName, OldPropertyName, NewPropertyName, OldPrefix, NewPrefix>>,
           Metadata_RenameProperty_Changed(SaveData.Meta, ClassName, OldPropertyName, OldPrefix),
           Metadata_RenameProperty(SaveData.Meta, ClassName, OldPropertyName,
                                   NewPropertyName, OldPrefix, NewPrefix))
    /\ UNCHANGED <<RuntimeClasses, LiveObj, loaded, storeCall, restoreCall>>
    /\ UNCHANGED refVars
    /\ UNCHANGED <<ActorObjs, threads, LevelMutex, custVars>>

\* The game makes the object the record is to be restored into next
NewRootObject(class, nested) ==
    /\ loaded
    /\ restoreCall.Done
    /\ restoreCall.Count < MaxRestores
    /\ LiveObj' = Object(class, MakeObject(RuntimeClasses[class], 0, nested))
    /\ restoreCall' = [NoRestoreCall EXCEPT !.Count = restoreCall.Count]
    /\ UNCHANGED <<RuntimeClasses, SaveData, loaded, storeCall>>
    /\ UNCHANGED refVars
    /\ UNCHANGED lvlVars

RootClasses == {"Foo", "Bar"}

ClassesWithBar(fsFoo, fsBar) ==
    [c \in RootClasses \cup NestedClasses |->
        IF c = "Foo" THEN fsFoo ELSE IF c = "Bar" THEN fsBar ELSE NestedClassFields(c)]

\* The classes Foo of the builds of SpecRename: one field each
RenameSchemas ==
    {<<f>> : f \in PropertyPool}
        \cup {<<Field("A", "FByteProperty", <<>>), Field("O", "FObjectProperty", <<>>)>>}

\* The renames the game asks for: a root class takes the name of the other
\* root class, a nested class that of the other nested class
RenamePairs ==
    {<<"Foo", "Bar">>, <<"Bar", "Foo">>, <<"InnerA", "InnerB">>, <<"InnerB", "InnerA">>}

InitRename ==
    /\ InitRefIdle
    /\ InitLvlIdle
    /\ \E fsFoo \in RenameSchemas :
         \E fsBar \in {fsFoo} \cup Added(fsFoo), nested \in NestedChoices(fsFoo) :
           /\ RuntimeClasses = ClassesWithBar(fsFoo, fsBar)
           /\ LiveObj = Object("Foo", MakeObject(fsFoo, 1, nested))
    /\ SaveData = EmptySaveData
    /\ loaded = FALSE
    /\ storeCall = NoStoreCall
    /\ restoreCall = NoRestoreCall

LoadSameBuild ==
    \E nested \in FreshChoices(RuntimeClasses["Foo"]) :
        LoadFromArchive(RuntimeClasses,
                        Object("Foo", MakeObject(RuntimeClasses["Foo"], 0, nested)))

Rename ==
    \E names \in RenamePairs : RenameClass(names[1], names[2])

\* The property renames the game asks for: the property A of the root class
\* or of the class of the nested object (whose properties are stored under
\* the prefix of O) takes a name no class declares, or its own name back
PropertyRenames ==
    {<<c[1], n[1], n[2], c[2]>> :
        c \in {<<"Foo", EmptyString>>, <<"InnerA", <<"O">>>>},
        n \in {<<"A", "Z">>, <<"Z", "A">>}}

RenameAProperty ==
    \E r \in PropertyRenames : RenameProperty(r[1], r[2], r[3], r[4], r[4])

NextObject ==
    \E class \in RootClasses :
      \E nested \in FreshChoices(RuntimeClasses[class]) : NewRootObject(class, nested)

NextRename ==
    \/ StoreGlobalObject
    \/ LoadSameBuild
    \/ Restore
    \/ Rename
    \/ RenameAProperty
    \/ NextObject

SpecRename == InitRename /\ [][NextRename]_vars

(***************************************************************************)
(* SpecStore: the game stores one global object under its ID, changes it,  *)
(* and stores it again.  The class of the object may declare a property of *)
(* an unsupported type, and its object property may point to an asset.     *)
(***************************************************************************)
\* What SpudStoreCustomData of the object may write into its custom data
CustomBlobs == {<<7>>, <<8, 9>>}

\* How many times the object is stored
MaxStores == 2

\* FSpudNamedObjectData of the object before its first store, next to the
\* global metadata
EmptyObjectData ==
    [Meta |-> EmptyMeta, Stored |-> FALSE, Data |-> <<>>, Offsets |-> EmptyMap,
     CustomData |-> <<>>]

NoStoreByID ==
    [Done |-> FALSE, Count |-> 0, Obj |-> NoStoreCall.Obj, Classes |-> EmptyMap,
     Pre |-> EmptyObjectData, Trace |-> <<>>, Custom |-> <<>>]

\* USpudState::StoreGlobalObject(Obj, Data), lines 443-457, once the visit
\* that ended in st has written the properties: an object with callbacks
\* has its custom data emptied and written again
StoredUnderID(st, custom) ==
    /\ SaveData' = [Meta |-> st.Meta, Stored |-> TRUE, Data |-> st.Data,
                    Offsets |-> st.Offsets,
                    CustomData |-> IF ImplementsSpudObjectCallback(LiveObj.Class)
                                   THEN custom ELSE SaveData.CustomData]
    /\ storeCall' = [Done |-> TRUE, Count |-> storeCall.Count + 1, Obj |-> LiveObj,
                     Classes |-> RuntimeClasses, Pre |-> SaveData,
                     Trace |-> st.Trace, Custom |-> custom]

\* USpudState::StoreGlobalObject(Obj, ID): the record of that ID is found or
\* made, and StoreObjectProperties empties its data and writes the object
StoreGlobalObjectByID(custom) ==
    /\ ~storeCall.Done
    /\ storeCall.Count < MaxStores
    /\ StoredUnderID(
           StoreObjectProperties(LiveObj.Class, SPUDDATA_PREFIXID_NONE, <<>>,
               VisitorState(RuntimeClasses, SaveData.Meta, <<>>, SaveData.Offsets,
                            LiveObj, FALSE, FALSE)),
           custom)
    /\ UNCHANGED <<RuntimeClasses, LiveObj, loaded, restoreCall>>
    /\ UNCHANGED refVars
    /\ UNCHANGED lvlVars

\* The game goes on: the object takes other values and another nested object
ObjectChanges(k, nested) ==
    /\ storeCall.Done
    /\ storeCall.Count < MaxStores
    /\ LiveObj' = Object(LiveObj.Class,
                         MakeObject(RuntimeClasses[LiveObj.Class], k, nested))
    /\ storeCall' = [storeCall EXCEPT !.Done = FALSE]
    /\ UNCHANGED <<RuntimeClasses, SaveData, loaded, restoreCall>>
    /\ UNCHANGED refVars
    /\ UNCHANGED lvlVars

UnsupportedField == Field("U", "FArrayProperty", <<>>)

\* The root classes of SpecStore: those of Spec, and those with the
\* unsupported property at some place
StoreSchemas ==
    Schemas \cup
    UNION { {InsertAt(fs, i, UnsupportedField) : i \in 1..(Len(fs) + 1)}
            : fs \in {x \in Schemas : Len(x) < MaxFields} }

\* What the object property of a stored object may point to
StoredChoices(fs) ==
    IF HasField(fs, "O") THEN NestedClasses \cup Assets \cup {NullObject} ELSE {NullObject}

InitStore ==
    /\ InitRefIdle
    /\ InitLvlIdle
    /\ \E fs \in StoreSchemas, class \in RootClasses :
         \E nested \in StoredChoices(fs) :
           /\ RuntimeClasses = ClassesWithBar(fs, fs)
           /\ LiveObj = Object(class, MakeObject(fs, 1, nested))
    /\ SaveData = EmptyObjectData
    /\ loaded = FALSE
    /\ storeCall = NoStoreByID
    /\ restoreCall = NoRestoreCall

StoreByID == \E custom \in CustomBlobs : StoreGlobalObjectByID(custom)

Change ==
    \E k \in StoredPatterns :
      \E nested \in StoredChoices(RuntimeClasses[LiveObj.Class]) : ObjectChanges(k, nested)

NextStore ==
    \/ StoreByID
    \/ Change

SpecStore == InitStore /\ [][NextStore]_vars

(***************************************************************************)
(* SpecActor: the actors of one level are stored, the level data is read   *)
(* back from a file whose bytes may have been damaged, and the actors of   *)
(* the level are restored from it.  The actors are not pawns, their root   *)
(* component is movable and they do not move: the velocities and the       *)
(* control rotation of the core data are zero and set nothing.  The        *)
(* transform is held in one byte.                                          *)
(***************************************************************************)
\* Level->Actors, in its order
ActorOrder == <<"HubDoor", "Crate">>

\* constexpr uint16 CoreDataVersion of WriteCoreActorData
CoreDataVersion == 1

\* The user data model version of the running build
GCurrentUserDataModelVersion == 2

\* The user data model versions a level data read back may carry
UserVersions == {1, 2}

\* The version tags the core data of an actor may carry in the file read back
VersionTags == {0, 1, 2, 256}

\* The transforms an actor may have when it is stored
Transforms == {3, 7}

\* An actor: its core values, its persistent properties, Custom, the state
\* its SpudStoreCustomData writes and its SpudRestoreCustomData reads, and
\* Guid, its SpudGuid property
ActorObject(class, hidden, xform, custom, obj) ==
    [Class |-> class, Hidden |-> hidden, Transform |-> xform, Custom |-> custom,
     Vals |-> obj.Vals, Objs |-> obj.Objs, Guid |-> InvalidGuid]

\* FSpudLevelData before the first store: its metadata and the records of
\* its actors
EmptyLevelData ==
    [Meta |-> EmptyMeta, Stored |-> FALSE, Actors |-> EmptyMap, UserDataModelVersion |-> 0]

\* FSpudNamedObjectData / FSpudSpawnedActorData as GetLevelActorData and
\* GetSpawnedActorData make them
EmptyActorData == [CoreData |-> <<>>, Data |-> <<>>, Offsets |-> EmptyMap, CustomData |-> <<>>]

\* USpudState::WriteCoreActorData
WriteCoreActorData(Actor) ==
    ToBytes(CoreDataVersion, 2) \o ToBytes(IF Actor.Hidden THEN 1 ELSE 0, 1)
        \o ToBytes(Actor.Transform, 1)

\* USpudState::StoreActor(Actor, LevelData), lines 1271-1296, once the visit
\* that ended in st has written the properties of the actor
StoredActorData(LevelData, Name, Actor, ActorData, st) ==
    [LevelData EXCEPT
        !.Meta = st.Meta,
        !.Actors = MapAdd(@, Name,
            [CoreData |-> WriteCoreActorData(Actor),
             Data |-> st.Data, Offsets |-> st.Offsets,
             CustomData |-> IF ImplementsSpudObjectCallback(Actor.Class)
                            THEN Actor.Custom ELSE ActorData.CustomData])]

\* USpudState::ShouldActorBeRespawnedOnRestore
ShouldActorBeRespawnedOnRestore(Name) == Name \in RuntimeActors

\* No record: the nullptr of the lookups
NoRecord == "nullptr"

\* What a lookup leaves: the key of the record found or made (or NoRecord),
\* the actor and the level data
Found(Key, Actor, LevelData) == [Key |-> Key, Actor |-> Actor, LevelData |-> LevelData]

\* Guid.ToString(SPUDDATA_GUID_KEY_FORMAT), the key of the record of a
\* spawned actor: the model names the key by the actor that GUID belongs to
SpawnedKey(Guid) == CHOOSE a \in RuntimeActors : ActorGuid(a) = Guid

\* USpudState::GetSpawnedActorData giving an actor without a GUID a new one
\* whatever the caller asks for
GetSpawnedActorData_AssignsGuid(Name, Actor, LevelData, AutoCreate) ==
    LET Guid == IF Actor.Guid # InvalidGuid THEN Actor.Guid ELSE ActorGuid(Name)
        GuidStr == SpawnedKey(Guid)
    IN  IF MapContains(LevelData.Actors, GuidStr)
        THEN Found(GuidStr, [Actor EXCEPT !.Guid = Guid], LevelData)
        ELSE IF AutoCreate
        THEN Found(GuidStr, [Actor EXCEPT !.Guid = Guid],
                   [LevelData EXCEPT !.Actors = MapAdd(@, GuidStr, EmptyActorData)])
        ELSE Found(NoRecord, [Actor EXCEPT !.Guid = Guid], LevelData)

\* USpudState::GetSpawnedActorData: the record is kept under the GUID of the
\* actor; an actor without a GUID is given one (FGuid::NewGuid, here the
\* GUID of that actor) only when AutoCreate, and is ignored otherwise
GetSpawnedActorData(Name, Actor, LevelData, AutoCreate) ==
    LET GuidOk == Actor.Guid # InvalidGuid \/ AutoCreate
        Guid == IF Actor.Guid # InvalidGuid THEN Actor.Guid ELSE ActorGuid(Name)
        GuidStr == SpawnedKey(Guid)
    IN  IF ~GuidOk
        THEN Found(NoRecord, Actor, LevelData)
        ELSE IF MapContains(LevelData.Actors, GuidStr)
        THEN Found(GuidStr, [Actor EXCEPT !.Guid = Guid], LevelData)
        ELSE IF AutoCreate
        THEN Found(GuidStr, [Actor EXCEPT !.Guid = Guid],
                   [LevelData EXCEPT !.Actors = MapAdd(@, GuidStr, EmptyActorData)])
        ELSE Found(NoRecord, Actor, LevelData)

\* USpudState::GetLevelActorData: the record is kept under the name of the
\* actor in its level
GetLevelActorData(Name, Actor, LevelData, AutoCreate) ==
    IF MapContains(LevelData.Actors, Name)
    THEN Found(Name, Actor, LevelData)
    ELSE IF AutoCreate
    THEN Found(Name, Actor, [LevelData EXCEPT !.Actors = MapAdd(@, Name, EmptyActorData)])
    ELSE Found(NoRecord, Actor, LevelData)

\* USpudState::StoreActor(Actor, LevelData), lines 1227-1263: the record of
\* the actor is found or made
ActorDataToStore(Name, Actor, LevelData) ==
    IF ShouldActorBeRespawnedOnRestore(Name)
    THEN GetSpawnedActorData(Name, Actor, LevelData, TRUE)
    ELSE GetLevelActorData(Name, Actor, LevelData, TRUE)

\* USpudState::StoreActor(Actor, LevelData)
StoreActor(Name, Actor, LevelData) ==
    LET found == ActorDataToStore(Name, Actor, LevelData)
        ActorData == found.LevelData.Actors[found.Key]
    IN  StoredActorData(found.LevelData, found.Key, Actor, ActorData,
            StoreObjectProperties(Actor.Class, SPUDDATA_PREFIXID_NONE, <<>>,
                VisitorState(RuntimeClasses, LevelData.Meta, <<>>, ActorData.Offsets,
                             Actor, FALSE, FALSE)))

\* The loop of USpudState::StoreLevel over Level->Actors, from the i-th on
RECURSIVE StoreActors(_, _)
StoreActors(i, LevelData) ==
    IF i > Len(ActorOrder)
    THEN LevelData
    ELSE StoreActors(i + 1, StoreActor(ActorOrder[i], ActorObjs[ActorOrder[i]], LevelData))

\* USpudState::StoreLevel: the actors of the level are stored, once
StoreLevelActors ==
    /\ ~SaveData.Stored
    /\ SaveData' = [StoreActors(1, SaveData) EXCEPT
                       !.Stored = TRUE,
                       !.UserDataModelVersion = GCurrentUserDataModelVersion]
    /\ storeCall' = [Done |-> TRUE, Obj |-> ActorObjs, Classes |-> RuntimeClasses]
    /\ UNCHANGED <<RuntimeClasses, LiveObj, loaded, restoreCall>>
    /\ UNCHANGED refVars
    /\ UNCHANGED <<threads, LevelMutex, opCall, ActorObjs, custVars>>

\* The core data with the version tag the file gives it
WithVersionTag(CoreData, tag) == ToBytes(tag, 2) \o SubSeq(CoreData, 3, Len(CoreData))

\* The level data is read back by a new process (LoadFromArchive and
\* GetLevelData): the core data of the actor Name carries the version tag
\* tag, the level data carry the user data model version of the build that
\* wrote them, and fresh is what the level holds before the restore
LoadLevelData(Name, tag, StoredUserVersion, fresh) ==
    /\ SaveData.Stored
    /\ ~loaded
    /\ loaded' = TRUE
    /\ SaveData' = [SaveData EXCEPT
                       !.Meta = ReadFromArchive(@),
                       !.UserDataModelVersion = StoredUserVersion,
                       !.Actors[Name].CoreData = WithVersionTag(@, tag)]
    /\ ActorObjs' = fresh
    /\ restoreCall' = NoRestoreCall
    /\ UNCHANGED <<RuntimeClasses, LiveObj, storeCall>>
    /\ UNCHANGED refVars
    /\ UNCHANGED <<threads, LevelMutex, opCall, custVars>>

\* What one call of RestoreActor leaves: the actor, the metadata with the
\* answers cached in it, and the trace of what was done
ActorRestore(Actor, Meta, Trace) == [Actor |-> Actor, Meta |-> Meta, Trace |-> Trace]

\* USpudState::PreRestoreObject
PreRestoreObject(Obj, StoredUserVersion) ==
    IF ImplementsSpudObjectCallback(Obj.Class)
    THEN (IF GCurrentUserDataModelVersion # StoredUserVersion
          THEN <<TraceEvent("PreRestoreDataModelUpgrade", <<>>, 0)>> ELSE <<>>)
         \o <<TraceEvent("PreRestore", <<>>, 0)>>
    ELSE <<>>

\* USpudState::RestoreCoreActorData
RestoreCoreActorData(Actor, FromData) ==
    LET InVersion == FromBytes(SubSeq(FromData, 1, 2))
    IN  IF InVersion = 1
        THEN ActorRestore([Actor EXCEPT !.Hidden = FromData[3] # 0,
                                        !.Transform = FromData[4]],
                          <<>>, <<TraceEvent("CoreData", <<>>, 0)>>)
        ELSE ActorRestore(Actor, <<>>, <<TraceEvent("CoreCorrupt", <<>>, 0)>>)

\* USpudState::PostRestoreObject
PostRestoreObject(Obj, FromCustomData, StoredUserVersion) ==
    IF ImplementsSpudObjectCallback(Obj.Class)
    THEN ActorRestore([Obj EXCEPT !.Custom = FromCustomData], <<>>,
                      (IF GCurrentUserDataModelVersion # StoredUserVersion
                       THEN <<TraceEvent("PostRestoreDataModelUpgrade", <<>>, 0)>> ELSE <<>>)
                      \o <<TraceEvent("CustomData", <<>>, 0), TraceEvent("PostRestore", <<>>, 0)>>)
    ELSE ActorRestore(Obj, <<>>, <<>>)

\* USpudState::RestoreActor, lines 751-753, once the core data were restored
\* with the result core and RestoreObjectProperties ended in st
RestoredProperties(ActorData, StoredUserVersion, core, st) ==
    LET post == PostRestoreObject([core.Actor EXCEPT !.Vals = st.Vals, !.Objs = st.Objs],
                                  ActorData.CustomData, StoredUserVersion)
    IN  ActorRestore(post.Actor, st.Meta,
                     PreRestoreObject(core.Actor, StoredUserVersion)
                         \o core.Trace \o st.Trace \o post.Trace)

\* USpudState::RestoreActor, lines 743-753
RestoredCore(ActorData, LevelData, core) ==
    RestoredProperties(ActorData, LevelData.UserDataModelVersion, core,
        RestoreObjectProperties(core.Actor.Class, SPUDDATA_PREFIXID_NONE, <<>>,
            VisitorState(RuntimeClasses, LevelData.Meta, ActorData.Data, ActorData.Offsets,
                         core.Actor, FALSE, FALSE)))

\* USpudState::RestoreActor, lines 727-739: the record of the actor is
\* looked up, never made
ActorDataToRestore(Name, Actor, LevelData) ==
    IF ShouldActorBeRespawnedOnRestore(Name)
    THEN GetSpawnedActorData(Name, Actor, LevelData, FALSE)
    ELSE GetLevelActorData(Name, Actor, LevelData, FALSE)

\* What RestoreActor leaves when its lookup left found and the restore r
WithRecords(found, r) ==
    [Actor |-> r.Actor, Meta |-> r.Meta, Trace |-> r.Trace,
     Records |-> found.LevelData.Actors]

\* USpudState::RestoreActor
RestoreActor(Name, Actor, LevelData) ==
    LET found == ActorDataToRestore(Name, Actor, LevelData)
    IN  WithRecords(found,
            IF found.Key # NoRecord
            THEN RestoredCore(found.LevelData.Actors[found.Key], found.LevelData,
                     RestoreCoreActorData(found.Actor,
                                          found.LevelData.Actors[found.Key].CoreData))
            ELSE ActorRestore(found.Actor, found.LevelData.Meta, <<>>))

\* The level once the actor Name was restored with the result r
AfterActor(lv, Name, r) ==
    [Actors |-> [lv.Actors EXCEPT ![Name] = r.Actor],
     Level  |-> [lv.Level EXCEPT !.Meta = r.Meta, !.Actors = r.Records],
     Trace  |-> MapAdd(lv.Trace, Name, r.Trace)]

\* The loop of USpudState::RestoreLevelActorProperties, from the i-th actor on
RECURSIVE RestoreActors(_, _)
RestoreActors(i, lv) ==
    IF i > Len(ActorOrder)
    THEN lv
    ELSE RestoreActors(i + 1,
             AfterActor(lv, ActorOrder[i],
                 RestoreActor(ActorOrder[i], lv.Actors[ActorOrder[i]], lv.Level)))

\* The restore of the level that ended in lv has written the actors
RestoredLevel(lv) ==
    /\ ActorObjs' = lv.Actors
    /\ SaveData' = lv.Level
    /\ restoreCall' = [Done |-> TRUE, Count |-> restoreCall.Count + 1, Pre |-> ActorObjs,
                       RequireSlow |-> FALSE, RequireFast |-> FALSE, Trace |-> lv.Trace]

\* USpudState::RestoreLevelActorProperties, as RestoreLevel calls it
RestoreLevelActorProperties ==
    /\ loaded
    /\ ~restoreCall.Done
    /\ RestoredLevel(RestoreActors(1, [Actors |-> ActorObjs, Level |-> SaveData,
                                       Trace |-> EmptyMap]))
    /\ UNCHANGED <<RuntimeClasses, LiveObj, loaded, storeCall>>
    /\ UNCHANGED refVars
    /\ UNCHANGED <<threads, LevelMutex, opCall, custVars>>

\* The classes of the actors: one property each
ActorSchemas == {<<f>> : f \in PropertyPool}

\* The actors of the level as the game has them when the level is stored
StoredActors(fs) ==
    {[a \in {"HubDoor", "Crate"} |->
         IF a = "HubDoor"
         THEN ActorObject("Foo", h, x, c, MakeObject(fs, 1, nested))
         ELSE [ActorObject(class, ~h, 10 - x, c, MakeObject(fs, 2, NullObject))
                  EXCEPT !.Guid = ActorGuid(a)]]
     : h \in BOOLEAN, x \in Transforms, c \in CustomBlobs, class \in {"Foo", "Bar"},
       nested \in NestedChoices(fs)}

\* The actors of the level as a new process has them before the restore:
\* USpudState::RespawnActor has given the spawned ones the GUID of their
\* record
FreshActors(stored) ==
    [a \in DOMAIN stored |->
        [ActorObject(stored[a].Class, FALSE, 0, <<>>,
                     MakeObject(RuntimeClasses[stored[a].Class], 0, NullObject))
            EXCEPT !.Guid = stored[a].Guid]]

InitActor ==
    /\ InitRefIdle
    /\ \E fs \in ActorSchemas :
         /\ RuntimeClasses = [c \in {"Foo", "Bar"} \cup NestedClasses |->
                                 IF c \in {"Foo", "Bar"} THEN fs ELSE NestedClassFields(c)]
         /\ ActorObjs \in StoredActors(fs)
    /\ LiveObj = NoStoreCall.Obj
    /\ SaveData = EmptyLevelData
    /\ loaded = FALSE
    /\ storeCall = NoStoreCall
    /\ restoreCall = NoRestoreCall
    /\ threads = <<>>
    /\ LevelMutex = <<>>
    /\ opCall = NoOpCall
    /\ InitCustIdle

LoadLevel ==
    \E i \in 1..Len(ActorOrder), tag \in VersionTags, version \in UserVersions :
        LoadLevelData(ActorOrder[i], tag, version, FreshActors(storeCall.Obj))

NextActor ==
    \/ StoreLevelActors
    \/ LoadLevel
    \/ RestoreLevelActorProperties

SpecActor == InitActor /\ [][NextActor]_vars

(***************************************************************************)
(* SpecNoRecord: the actors of one level and some global objects are       *)
(* stored; the save read back may be one made before an actor was placed   *)
(* in the level, the game may have spawned the runtime actor itself, so    *)
(* that it has no GUID yet, and a global object is restored under an ID    *)
(* that may never have been stored.                                        *)
(***************************************************************************)
\* The IDs the game stores and restores its global object under
GlobalIDs == {"Settings", "Stats"}

\* How many times a global object is restored
MaxGlobalRestores == 2

\* FSpudGlobalData before the first store
EmptyGlobalData ==
    [Meta |-> EmptyMeta, Objects |-> EmptyMap,
     UserDataModelVersion |-> GCurrentUserDataModelVersion]

\* FSpudSaveData: the data of the level and the global data
EmptySaveGame ==
    [Meta |-> EmptyMeta, Stored |-> FALSE, Actors |-> EmptyMap, UserDataModelVersion |-> 0,
     GlobalData |-> EmptyGlobalData]

\* USpudState::GetGlobalObjectData(ID, AutoCreate): the global data with
\* the record of ID in it, if it was there or was made
GetGlobalObjectData(GlobalData, ID, AutoCreate) ==
    IF ~MapContains(GlobalData.Objects, ID) /\ AutoCreate
    THEN [GlobalData EXCEPT !.Objects = MapAdd(@, ID, EmptyActorData)]
    ELSE GlobalData

\* The call of RestoreGlobalObject the game made last
NoGlobalRestore ==
    [Op |-> "None", Count |-> 0, Restores |-> 0, ID |-> "", Pre |-> NoStoreCall.Obj,
     Trace |-> <<>>]

\* USpudState::StoreGlobalObject(Obj, Data), once the visit that ended in
\* st has written the properties of the object
StoredGlobalObject(GlobalData, ID, Obj, st) ==
    [GlobalData EXCEPT
        !.Meta = st.Meta,
        !.Objects[ID] =
            [CoreData |-> <<>>, Data |-> st.Data, Offsets |-> st.Offsets,
             CustomData |-> IF ImplementsSpudObjectCallback(Obj.Class)
                            THEN Obj.Custom ELSE @.CustomData]]

\* USpudState::StoreGlobalObject(Obj, ID)
StoreGlobalObjectUnder(ID) ==
    /\ ~loaded
    /\ ~MapContains(SaveData.GlobalData.Objects, ID)
    /\ LET GlobalData == GetGlobalObjectData(SaveData.GlobalData, ID, TRUE)
       IN  SaveData' = [SaveData EXCEPT !.GlobalData =
               StoredGlobalObject(GlobalData, ID, LiveObj,
                   StoreObjectProperties(LiveObj.Class, SPUDDATA_PREFIXID_NONE, <<>>,
                       VisitorState(RuntimeClasses, GlobalData.Meta, <<>>,
                                    GlobalData.Objects[ID].Offsets, LiveObj, FALSE, FALSE)))]
    /\ UNCHANGED <<RuntimeClasses, LiveObj, loaded, storeCall, restoreCall>>
    /\ UNCHANGED refVars
    /\ UNCHANGED lvlVars

\* The save is read back by a new process: the records of the actors in
\* missing are not in it, the runtime actors of the level have the GUID
\* Guid, and the global object is a new one
LoadSaveGame(missing, Guid) ==
    /\ SaveData.Stored
    /\ ~loaded
    /\ loaded' = TRUE
    /\ SaveData' = [SaveData EXCEPT
                       !.Meta = ReadFromArchive(@),
                       !.Actors = [a \in (DOMAIN @) \ missing |-> @[a]],
                       !.GlobalData.Meta = ReadFromArchive(@)]
    /\ ActorObjs' = [a \in DOMAIN ActorObjs |->
                        [FreshActors(storeCall.Obj)[a] EXCEPT
                            !.Guid = IF ShouldActorBeRespawnedOnRestore(a)
                                     THEN Guid ELSE @]]
    /\ LiveObj' = ActorObject(LiveObj.Class, FALSE, 0, <<>>,
                              MakeObject(RuntimeClasses[LiveObj.Class], 0, NullObject))
    /\ restoreCall' = NoRestoreCall
    /\ opCall' = NoGlobalRestore
    /\ UNCHANGED <<RuntimeClasses, storeCall>>
    /\ UNCHANGED refVars
    /\ UNCHANGED <<threads, LevelMutex, custVars>>

\* USpudState::RestoreGlobalObject(Obj, Data) for the record Data
RestoredGlobalObject(Obj, Data, GlobalData) ==
    RestoredProperties(Data, GlobalData.UserDataModelVersion,
        ActorRestore(Obj, <<>>, <<>>),
        RestoreObjectProperties(Obj.Class, SPUDDATA_PREFIXID_NONE, <<>>,
            VisitorState(RuntimeClasses, GlobalData.Meta, Data.Data, Data.Offsets,
                         Obj, FALSE, FALSE)))

\* What RestoreGlobalObject leaves when the restore of the record ended in r
GlobalObjectRestored(SaveGame, GlobalData, r) ==
    [LiveObj  |-> r.Actor,
     SaveData |-> [SaveGame EXCEPT !.GlobalData = [GlobalData EXCEPT !.Meta = r.Meta]],
     Trace    |-> r.Trace]

\* USpudState::RestoreGlobalObject(Obj, ID): nothing without a record
RestoreGlobalObjectByID(Obj, ID, SaveGame, GlobalData) ==
    IF MapContains(GlobalData.Objects, ID)
    THEN GlobalObjectRestored(SaveGame, GlobalData,
             RestoredGlobalObject(Obj, GlobalData.Objects[ID], GlobalData))
    ELSE [LiveObj  |-> Obj,
          SaveData |-> [SaveGame EXCEPT !.GlobalData = GlobalData],
          Trace    |-> <<>>]

\* The call of RestoreGlobalObject(Obj, ID) that ended in r has returned
GlobalRestoreReturns(ID, r) ==
    /\ LiveObj' = r.LiveObj
    /\ SaveData' = r.SaveData
    /\ opCall' = [Op |-> "RestoreGlobalObject", Count |-> opCall.Count + 1,
                  Restores |-> 0, ID |-> ID, Pre |-> LiveObj, Trace |-> r.Trace]

\* The game calls RestoreGlobalObject(Obj, ID)
RestoreGlobalObjectUnder(ID) ==
    /\ loaded
    /\ opCall.Count < MaxGlobalRestores
    /\ GlobalRestoreReturns(ID,
           RestoreGlobalObjectByID(LiveObj, ID, SaveData,
               GetGlobalObjectData(SaveData.GlobalData, ID, FALSE)))
    /\ UNCHANGED <<RuntimeClasses, loaded, storeCall, restoreCall>>
    /\ UNCHANGED refVars
    /\ UNCHANGED <<ActorObjs, threads, LevelMutex, custVars>>

InitNoRecord ==
    /\ InitRefIdle
    /\ \E fs \in ActorSchemas :
         /\ RuntimeClasses = [c \in {"Foo", "Bar"} \cup NestedClasses |->
                                 IF c \in {"Foo", "Bar"} THEN fs ELSE NestedClassFields(c)]
         /\ ActorObjs \in {s \in StoredActors(fs) :
                              /\ s["HubDoor"].Hidden
                              /\ s["HubDoor"].Transform = 3
                              /\ s["HubDoor"].Objs = s["Crate"].Objs}
         /\ \E class \in RootClasses, c \in CustomBlobs :
              LiveObj = ActorObject(class, FALSE, 0, c, MakeObject(fs, 2, NullObject))
    /\ SaveData = EmptySaveGame
    /\ loaded = FALSE
    /\ storeCall = NoStoreCall
    /\ restoreCall = NoRestoreCall
    /\ threads = <<>>
    /\ LevelMutex = <<>>
    /\ opCall = NoGlobalRestore
    /\ InitCustIdle

StoreGlobal == \E ID \in GlobalIDs : StoreGlobalObjectUnder(ID)

LoadSaveFile ==
    \E missing \in SUBSET {ActorOrder[i] : i \in 1..Len(ActorOrder)},
       Guid \in {InvalidGuid, ActorGuid("Crate")} : LoadSaveGame(missing, Guid)

RestoreGlobal == \E ID \in GlobalIDs : RestoreGlobalObjectUnder(ID)

NextNoRecord ==
    \/ StoreLevelActors
    \/ StoreGlobal
    \/ LoadSaveFile
    \/ RestoreLevelActorProperties
    \/ RestoreGlobal

SpecNoRecord == InitNoRecord /\ [][NextNoRecord]_vars

(***************************************************************************)
(* SpecThreads: two threads of the host, the game thread and a streaming   *)
(* loading thread, call into one USpudState.  A call is a program of       *)
(* steps, taken one at a time; a step that reads or writes the stored data *)
(* of a level is taken in two moves, entering the data and leaving it.     *)
(* The world holds both levels, no name is assigned to a level, and the    *)
(* save holds data for both levels.                                        *)
(***************************************************************************)
Threads == {"GameThread", "LoadingThread"}

NoThread == "none"

Other(t) == CHOOSE u \in Threads : u # t

\* How many calls the two threads make in all
MaxCalls == 2

Step(kind, level) == [Kind |-> kind, Level |-> level]

\* FScopeLock LevelLock(&LevelData->Mutex) around the steps of the kinds given
LockedSteps(Level, kinds) ==
    <<Step("Lock", Level)>> \o [i \in 1..Len(kinds) |-> Step(kinds[i], Level)]
        \o <<Step("Unlock", Level)>>

\* USpudState::ReleaseLevelData: FSpudSaveData::WriteAndReleaseLevelData
\* takes the mutex of the level for the write and the release
ReleaseLevelDataSteps(Level) == LockedSteps(Level, <<"Release">>)

\* USpudState::StoreLevel
StoreLevelSteps(Level, bRelease) ==
    LockedSteps(Level, <<"Cache", "StoreActors", "Cleanup">>)
        \o (IF bRelease THEN ReleaseLevelDataSteps(Level) ELSE <<>>)

\* USpudState::RestoreLevel(ULevel*)
RestoreLevelSteps(Level) ==
    LockedSteps(Level, <<"Cache", "SpawnedActors", "ActorProperties", "Cleanup">>)

\* USpudState::StoreActor(AActor*) and StoreLevelActorDestroyed(AActor*)
StoreActorSteps(Actor) == <<Step("StoreActor", ActorLevel(Actor))>>

StoreLevelActorDestroyedSteps(Actor) == <<Step("ActorDestroyed", ActorLevel(Actor))>>

\* USpudState::RenameClass and RenameProperty: the loop over
\* SaveData.LevelDataMap (the global metadata is no level data)
RenameSteps(kind) == [i \in 1..Len(LevelOrder) |-> Step(kind, LevelOrder[i])]

\* USpudState::RenameLevelObject
RenameLevelObjectSteps(Level) == LockedSteps(Level, <<"RenameObject">>)

\* USpudState::RestoreLoadedWorld, full world: lines 1114-1186
WorldSpawnSteps(Level) ==
    <<Step("WorldName", Level)>> \o LockedSteps(Level, <<"SpawnedActors">>)

RestoreLoadedWorldSteps ==
    <<Step("WorldStart", NullLevel)>>
        \o WorldSpawnSteps(LevelOrder[1]) \o WorldSpawnSteps(LevelOrder[2])
        \o LockedSteps(LevelOrder[1], <<"ActorProperties">>)
        \o LockedSteps(LevelOrder[2], <<"ActorProperties">>)
        \o <<Step("Cleanup", NullLevel)>>

\* The steps that read or write the stored data of their level
DataKinds ==
    {"StoreActors", "SpawnedActors", "ActorProperties", "StoreActor", "ActorDestroyed",
     "RenameClass", "RenameProperty", "RenameObject", "Release"}

\* The arguments of a call and what the level it works on holds: the actor
\* Actor of the level has one actor reference property, whose value is Target
\* at a store and which is stored as (LevelRef, ActorRef) at a restore
NoArgs ==
    [Actor |-> NullActor, Target |-> NullActor, LevelRef |-> EmptyString,
     ActorRef |-> EmptyString, Old |-> EmptyString, New |-> EmptyString]

NoResult == [Kind |-> "None"]

IdleThread ==
    [pc |-> 0, Prog |-> <<>>, Op |-> "None", Level |-> NullLevel, Args |-> NoArgs,
     Inside |-> NullLevel, ToRemove |-> {}, Known |-> EmptyMap, Result |-> NoResult,
     With |-> {}, Calls |-> 0]

\* FSpudLevelData of a level the save holds data for
StoredLevelData ==
    [LevelActors |-> {}, DestroyedActors |-> <<>>, Classes |-> {"Foo"},
     PropertyNames |-> {"A"}, Released |-> FALSE]

\* The variables no step of a thread changes
hostVars == <<WorldLevels, PatchNamesMapping, RuntimeClasses, LiveObj, loaded,
              storeCall, restoreCall, ActorObjs, opCall, custVars>>

Current(t) == threads[t].Prog[threads[t].pc]

At(t, kind) == Running /\ threads[t].pc # 0 /\ Current(t).Kind = kind

\* The thread has entered the data of the level of its step
InData(t, kind) == At(t, kind) /\ threads[t].Inside = Current(t).Level

\* The thread once its step is taken
Advance(th) ==
    [th EXCEPT !.pc = IF @ = Len(th.Prog) THEN 0 ELSE @ + 1, !.Inside = NullLevel]

Busy(t) == threads[t].pc # 0

\* A thread calls into USpudState
Call(t, op, Level, Prog, Args) ==
    /\ Running
    /\ ~Busy(t)
    /\ threads[t].Calls + threads[Other(t)].Calls < MaxCalls
    /\ threads' =
         [u \in Threads |->
            IF u = t
            THEN [IdleThread EXCEPT
                    !.pc = 1, !.Prog = Prog, !.Op = op, !.Level = Level, !.Args = Args,
                    !.Calls = threads[t].Calls + 1,
                    !.With = IF Busy(Other(t))
                             THEN {<<threads[Other(t)].Op, threads[Other(t)].Level>>}
                             ELSE {}]
            ELSE IF Busy(u)
                 THEN [threads[u] EXCEPT !.With = @ \cup {<<op, Level>>}]
                 ELSE threads[u]]
    /\ UNCHANGED <<RuntimeObjectsByGuid, WorldLevelsMap, WorldLevelsToName, refCall,
                   SaveData, LevelMutex>>
    /\ UNCHANGED hostVars

\* The level actor of a level, which holds the actor reference property
HolderOf(Level) == CHOOSE a \in LevelActors : ActorLevel(a) = Level

\* The runtime actors the data of a level holds as spawned
SpawnedOf(Level) == {a \in RuntimeActors : ActorLevel(a) = Level}

\* The tables as the opening loop of a pass leaves them when no other thread
\* is at work
AloneCache == CacheWorldLevels(1, WorldLevels, LevelCache(EmptyMap, EmptyMap, {}))

\* The reference to Target as a pass running alone stores it
StoredRefTo(Target) ==
    SpudPropertyUtil_GetActorReferenceString(Target,
        WorldReferenceLookupsOf(EmptyMap, AloneCache.Map, AloneCache.ToName))

RefTargets == LevelActors \cup {"Crate"}

WithStoredRef(Level, r) ==
    [NoArgs EXCEPT !.Actor = HolderOf(Level), !.LevelRef = r.LevelRef, !.ActorRef = r.ActorRef]

CallStoreLevel(t) ==
    \E Level \in Levels, Target \in RefTargets, bRelease \in BOOLEAN :
        Call(t, "StoreLevel", Level, StoreLevelSteps(Level, bRelease),
             [NoArgs EXCEPT !.Actor = HolderOf(Level), !.Target = Target])

CallRestoreLevel(t) ==
    \E Level \in Levels, Target \in RefTargets :
        Call(t, "RestoreLevel", Level, RestoreLevelSteps(Level),
             WithStoredRef(Level, StoredRefTo(Target)))

CallStoreActor(t) ==
    \E Actor \in LevelActors :
        Call(t, "StoreActor", ActorLevel(Actor), StoreActorSteps(Actor),
             [NoArgs EXCEPT !.Actor = Actor])

CallStoreLevelActorDestroyed(t) ==
    \E Actor \in LevelActors :
        Call(t, "StoreLevelActorDestroyed", ActorLevel(Actor),
             StoreLevelActorDestroyedSteps(Actor), [NoArgs EXCEPT !.Actor = Actor])

CallRenameClass(t) ==
    Call(t, "RenameClass", NullLevel, RenameSteps("RenameClass"),
         [NoArgs EXCEPT !.Old = "Foo", !.New = "Bar"])

CallRenameProperty(t) ==
    Call(t, "RenameProperty", NullLevel, RenameSteps("RenameProperty"),
         [NoArgs EXCEPT !.Old = "A", !.New = "B"])

CallRenameLevelObject(t) ==
    \E Actor \in LevelActors :
        Call(t, "RenameLevelObject", ActorLevel(Actor),
             RenameLevelObjectSteps(ActorLevel(Actor)),
             [NoArgs EXCEPT !.Old = ActorName(Actor), !.New = <<"Renamed">>])

CallReleaseLevelData(t) ==
    \E Level \in Levels :
        Call(t, "ReleaseLevelData", Level, ReleaseLevelDataSteps(Level), NoArgs)

CallRestoreLoadedWorld(t) ==
    \E Level \in Levels, Target \in RefTargets :
        Call(t, "RestoreLoadedWorld", NullLevel, RestoreLoadedWorldSteps,
             WithStoredRef(Level, StoredRefTo(Target)))

\* FScopeLock: the thread waits until the mutex of the level is free
Lock(t) ==
    /\ At(t, "Lock")
    /\ LevelMutex[Current(t).Level] = NoThread
    /\ LevelMutex' = [LevelMutex EXCEPT ![Current(t).Level] = t]
    /\ threads' = [threads EXCEPT ![t] = Advance(@)]
    /\ UNCHANGED <<RuntimeObjectsByGuid, WorldLevelsMap, WorldLevelsToName, refCall, SaveData>>
    /\ UNCHANGED hostVars

\* The end of the scope of the FScopeLock
Unlock(t) ==
    /\ At(t, "Unlock")
    /\ LevelMutex' = [LevelMutex EXCEPT ![Current(t).Level] = NoThread]
    /\ threads' = [threads EXCEPT ![t] = Advance(@)]
    /\ UNCHANGED <<RuntimeObjectsByGuid, WorldLevelsMap, WorldLevelsToName, refCall, SaveData>>
    /\ UNCHANGED hostVars

\* The thread starts to read or write the data of the level of its step
Enter(t) ==
    /\ Running
    /\ Busy(t)
    /\ Current(t).Kind \in DataKinds
    /\ threads[t].Inside = NullLevel
    /\ threads' = [threads EXCEPT ![t].Inside = Current(t).Level]
    /\ UNCHANGED <<RuntimeObjectsByGuid, WorldLevelsMap, WorldLevelsToName, refCall,
                   SaveData, LevelMutex>>
    /\ UNCHANGED hostVars

\* The tables once the opening loop of a pass has left the cache c
Cached(t, c) ==
    /\ WorldLevelsMap' = c.Map
    /\ WorldLevelsToName' = c.ToName
    /\ threads' = [threads EXCEPT
                     ![t] = [Advance(@) EXCEPT !.ToRemove = c.ToRemove,
                                               !.Known = RuntimeObjectsByGuid]]

\* StoreLevel lines 51-71, RestoreLevel lines 510-530
Cache(t) ==
    /\ At(t, "Cache")
    /\ Cached(t, CacheWorldLevels(1, WorldLevels,
                                  LevelCache(EmptyMap, WorldLevelsToName, {})))
    /\ UNCHANGED <<RuntimeObjectsByGuid, refCall, SaveData, LevelMutex>>
    /\ UNCHANGED hostVars

\* The data of a level once it is written to: it is loaded
Written(data) == [data EXCEPT !.Released = FALSE]

\* StoreLevel lines 75-87: the actors of the level are stored, the reference
\* property of Actor among them
StoreActorsOfLevel(t) ==
    /\ InData(t, "StoreActors")
    /\ threads' = [threads EXCEPT
          ![t] = [Advance(@) EXCEPT !.Result =
                    [Kind |-> "Encoded",
                     Ref |-> SpudPropertyUtil_GetActorReferenceString(
                                 threads[t].Args.Target, GetWorldReferenceLookups)]]]
    /\ SaveData' = [SaveData EXCEPT ![Current(t).Level] =
          Written([@ EXCEPT !.LevelActors =
              @ \cup {ActorName(a) : a \in {b \in LevelActors : ActorLevel(b) = Current(t).Level}}])]
    /\ UNCHANGED <<RuntimeObjectsByGuid, WorldLevelsMap, WorldLevelsToName, refCall, LevelMutex>>
    /\ UNCHANGED hostVars

\* USpudState::RestoreLevelSpawnedActors
SpawnedActors(t) ==
    /\ InData(t, "SpawnedActors")
    /\ RuntimeObjectsByGuid' = RespawnAll(RuntimeObjectsByGuid, SpawnedOf(Current(t).Level))
    /\ threads' = [threads EXCEPT ![t] = Advance(@)]
    /\ UNCHANGED <<WorldLevelsMap, WorldLevelsToName, refCall, SaveData, LevelMutex>>
    /\ UNCHANGED hostVars

\* USpudState::RestoreLevelActorProperties: the actors of the level are
\* restored, the reference property of Actor among them
ActorProperties(t) ==
    /\ InData(t, "ActorProperties")
    /\ IF ActorLevel(threads[t].Args.Actor) = Current(t).Level
       THEN \E r \in GetReferencedActor(threads[t].Args.LevelRef, threads[t].Args.ActorRef,
                                        GetWorldReferenceLookups, Current(t).Level) :
              /\ threads' = [threads EXCEPT
                    ![t] = [Advance(@) EXCEPT !.Result = [Kind |-> "Decoded", Out |-> r]]]
              /\ refCall' = [refCall EXCEPT !.Outcome = OutcomeOf(r)]
       ELSE /\ threads' = [threads EXCEPT ![t] = Advance(@)]
            /\ UNCHANGED refCall
    /\ UNCHANGED <<RuntimeObjectsByGuid, WorldLevelsMap, WorldLevelsToName, SaveData, LevelMutex>>
    /\ UNCHANGED hostVars

\* StoreLevel lines 89-95, RestoreLevel lines 541-547, RestoreLoadedWorld
\* lines 1180-1186
Cleanup(t) ==
    /\ At(t, "Cleanup")
    /\ WorldLevelsToName' = RemoveLevels(WorldLevelsToName, threads[t].ToRemove)
    /\ WorldLevelsMap' = EmptyMap
    /\ threads' = [threads EXCEPT ![t] = Advance(@)]
    /\ UNCHANGED <<RuntimeObjectsByGuid, refCall, SaveData, LevelMutex>>
    /\ UNCHANGED hostVars

\* USpudState::StoreActor(AActor*)
StoreOneActor(t) ==
    /\ InData(t, "StoreActor")
    /\ SaveData' = [SaveData EXCEPT ![Current(t).Level] =
          Written([@ EXCEPT !.LevelActors = @ \cup {ActorName(threads[t].Args.Actor)}])]
    /\ threads' = [threads EXCEPT ![t] = Advance(@)]
    /\ UNCHANGED <<RuntimeObjectsByGuid, WorldLevelsMap, WorldLevelsToName, refCall, LevelMutex>>
    /\ UNCHANGED hostVars

\* USpudState::StoreLevelActorDestroyed(AActor*)
ActorDestroyed(t) ==
    /\ InData(t, "ActorDestroyed")
    /\ SaveData' = [SaveData EXCEPT ![Current(t).Level] =
          Written([@ EXCEPT !.DestroyedActors = Append(@, ActorName(threads[t].Args.Actor))])]
    /\ threads' = [threads EXCEPT ![t] = Advance(@)]
    /\ UNCHANGED <<RuntimeObjectsByGuid, WorldLevelsMap, WorldLevelsToName, refCall, LevelMutex>>
    /\ UNCHANGED hostVars

\* USpudState::RenameClass, line 1583: the class is renamed in place in the
\* metadata of one level
RenameClassInLevel(t) ==
    /\ InData(t, "RenameClass")
    /\ SaveData' = [SaveData EXCEPT ![Current(t).Level] =
          Written([@ EXCEPT !.Classes =
              IF threads[t].Args.Old \in @
              THEN (@ \ {threads[t].Args.Old}) \cup {threads[t].Args.New} ELSE @])]
    /\ threads' = [threads EXCEPT ![t] = Advance(@)]
    /\ UNCHANGED <<RuntimeObjectsByGuid, WorldLevelsMap, WorldLevelsToName, refCall, LevelMutex>>
    /\ UNCHANGED hostVars

\* USpudState::RenameProperty, line 1600: the new name enters the property
\* names of the metadata of one level
RenamePropertyInLevel(t) ==
    /\ InData(t, "RenameProperty")
    /\ SaveData' = [SaveData EXCEPT ![Current(t).Level] =
          Written([@ EXCEPT !.PropertyNames =
              IF threads[t].Args.Old \in @ THEN @ \cup {threads[t].Args.New} ELSE @])]
    /\ threads' = [threads EXCEPT ![t] = Advance(@)]
    /\ UNCHANGED <<RuntimeObjectsByGuid, WorldLevelsMap, WorldLevelsToName, refCall, LevelMutex>>
    /\ UNCHANGED hostVars

\* USpudState::RenameLevelObject, line 1617
RenameObject(t) ==
    /\ InData(t, "RenameObject")
    /\ SaveData' = [SaveData EXCEPT ![Current(t).Level] =
          Written([@ EXCEPT !.LevelActors =
              IF threads[t].Args.Old \in @ /\ threads[t].Args.New \notin @
              THEN (@ \ {threads[t].Args.Old}) \cup {threads[t].Args.New} ELSE @])]
    /\ threads' = [threads EXCEPT ![t] = Advance(@)]
    /\ UNCHANGED <<RuntimeObjectsByGuid, WorldLevelsMap, WorldLevelsToName, refCall, LevelMutex>>
    /\ UNCHANGED hostVars

\* FSpudSaveData::WriteAndReleaseLevelData
Release(t) ==
    /\ InData(t, "Release")
    /\ SaveData' = [SaveData EXCEPT ![Current(t).Level].Released = TRUE]
    /\ threads' = [threads EXCEPT ![t] = Advance(@)]
    /\ UNCHANGED <<RuntimeObjectsByGuid, WorldLevelsMap, WorldLevelsToName, refCall, LevelMutex>>
    /\ UNCHANGED hostVars

\* RestoreLoadedWorld lines 1114-1116
WorldStart(t) ==
    /\ At(t, "WorldStart")
    /\ WorldLevelsMap' = EmptyMap
    /\ RuntimeObjectsByGuid' = EmptyMap
    /\ threads' = [threads EXCEPT ![t] = [Advance(@) EXCEPT !.ToRemove = {}]]
    /\ UNCHANGED <<WorldLevelsToName, refCall, SaveData, LevelMutex>>
    /\ UNCHANGED hostVars

\* RestoreLoadedWorld lines 1124-1133
WorldName(t) ==
    /\ At(t, "WorldName")
    /\ LET LevelToRestore == Current(t).Level
           LevelName == GetLevelName(LevelToRestore, WorldLevelsToName)
       IN  /\ WorldLevelsMap' = MapAdd(WorldLevelsMap, LevelName, LevelToRestore)
           /\ IF ~MapContains(WorldLevelsToName, LevelToRestore)
              THEN /\ WorldLevelsToName' = MapAdd(WorldLevelsToName, LevelToRestore, LevelName)
                   /\ threads' = [threads EXCEPT
                         ![t] = [Advance(@) EXCEPT !.ToRemove = @ \cup {LevelToRestore}]]
              ELSE /\ UNCHANGED WorldLevelsToName
                   /\ threads' = [threads EXCEPT ![t] = Advance(@)]
    /\ UNCHANGED <<RuntimeObjectsByGuid, refCall, SaveData, LevelMutex>>
    /\ UNCHANGED hostVars

InitThreads ==
    /\ WorldLevels = Levels
    /\ RuntimeObjectsByGuid = EmptyMap
    /\ WorldLevelsMap = EmptyMap
    /\ WorldLevelsToName = EmptyMap
    /\ PatchNamesMapping = EmptyMap
    /\ refCall = NoRefCall
    /\ RuntimeClasses = EmptyMap
    /\ LiveObj = NoStoreCall.Obj
    /\ SaveData = [l \in Levels |-> StoredLevelData]
    /\ loaded = TRUE
    /\ storeCall = NoStoreCall
    /\ restoreCall = NoRestoreCall
    /\ ActorObjs = <<>>
    /\ threads = [t \in Threads |-> IdleThread]
    /\ LevelMutex = [l \in Levels |-> NoThread]
    /\ opCall = NoOpCall
    /\ InitCustIdle

NextThreads ==
    \E t \in Threads :
        \/ CallStoreLevel(t)
        \/ CallRestoreLevel(t)
        \/ CallStoreActor(t)
        \/ CallStoreLevelActorDestroyed(t)
        \/ CallRenameClass(t)
        \/ CallRenameProperty(t)
        \/ CallRenameLevelObject(t)
        \/ CallReleaseLevelData(t)
        \/ CallRestoreLoadedWorld(t)
        \/ Lock(t)
        \/ Unlock(t)
        \/ Enter(t)
        \/ Cache(t)
        \/ StoreActorsOfLevel(t)
        \/ SpawnedActors(t)
        \/ ActorProperties(t)
        \/ Cleanup(t)
        \/ StoreOneActor(t)
        \/ ActorDestroyed(t)
        \/ RenameClassInLevel(t)
        \/ RenamePropertyInLevel(t)
        \/ RenameObject(t)
        \/ Release(t)
        \/ WorldStart(t)
        \/ WorldName(t)

SpecThreads == InitThreads /\ [][NextThreads]_vars

(***************************************************************************)
(* SpecSession: one process loads saves one after the other into the same  *)
(* USpudState, restores the object of each, and may reset the state in     *)
(* between.  The saves were written by builds whose root class may declare *)
(* other fields than the running build's.                                  *)
(***************************************************************************)
\* How many saves the process loads
MaxLoads == 2

\* The save a build whose root class declares fs wrote for its object
ArchiveOf(fs, k, nested) ==
    StoredRecord(
        StoreObjectProperties("Foo", SPUDDATA_PREFIXID_NONE, <<>>,
            VisitorState(ClassesOf(fs), EmptyMeta, <<>>, EmptyMap,
                         Object("Foo", MakeObject(fs, k, nested)), FALSE, FALSE)))

\* The class definitions are read over those the container holds: a
\* definition of a class the container knew keeps the answer cached for it
Metadata_ReadFromArchive_KeepsChecked(Held, Archived) ==
    [Archived EXCEPT !.ClassDefs =
        [i \in 1..Len(Archived.ClassDefs) |->
            IF GetClassDef(Held, Archived.ClassDefs[i].ClassName) = 0
            THEN Archived.ClassDefs[i]
            ELSE [Archived.ClassDefs[i] EXCEPT !.RuntimeMatchState =
                     Held.ClassDefs[GetClassDef(Held, Archived.ClassDefs[i].ClassName)]
                         .RuntimeMatchState]]]

\* FSpudSaveData::ReadFromArchive into a container that holds the metadata
\* Held: what it held is dropped, and the definitions read are not
\* checked against the running build yet
Metadata_ReadFromArchive(Held, Archived) == ReadFromArchive(Archived)

\* The record of a call that starts a session: the metadata before it
SessionCall(Op) ==
    [Op |-> Op, Count |-> opCall.Count + 1, Restores |-> 0, Pre |-> SaveData.Meta]

\* USpudState::LoadFromArchive in the running process; obj is the object
\* the game made for the saved one
LoadSave(fs, k, nested, obj) ==
    /\ opCall.Count < MaxLoads
    /\ loaded' = TRUE
    /\ LiveObj' = obj
    /\ SaveData' = [ArchiveOf(fs, k, nested) EXCEPT
                       !.Meta = Metadata_ReadFromArchive(SaveData.Meta, @)]
    /\ storeCall' = [Done |-> TRUE, Obj |-> Object("Foo", MakeObject(fs, k, nested)),
                     Classes |-> ClassesOf(fs)]
    /\ restoreCall' = NoRestoreCall
    /\ opCall' = SessionCall("LoadFromArchive")
    /\ UNCHANGED RuntimeClasses
    /\ UNCHANGED refVars
    /\ UNCHANGED <<ActorObjs, threads, LevelMutex, custVars>>

\* USpudState::ResetState: SaveData.Reset()
ResetState ==
    /\ loaded
    /\ loaded' = FALSE
    /\ SaveData' = EmptySaveData
    /\ storeCall' = NoStoreCall
    /\ restoreCall' = NoRestoreCall
    /\ opCall' = [SessionCall("ResetState") EXCEPT !.Count = opCall.Count]
    /\ UNCHANGED <<RuntimeClasses, LiveObj>>
    /\ UNCHANGED refVars
    /\ UNCHANGED <<ActorObjs, threads, LevelMutex, custVars>>

InitSession ==
    /\ InitRefIdle
    /\ InitLvlIdle
    /\ \E fs \in RenameSchemas :
         /\ RuntimeClasses = ClassesOf(fs)
         /\ LiveObj = Object("Foo", MakeObject(fs, 0, NullObject))
    /\ SaveData = EmptySaveData
    /\ loaded = FALSE
    /\ storeCall = NoStoreCall
    /\ restoreCall = NoRestoreCall

LoadASave ==
    \E fs \in Evolutions(RuntimeClasses["Foo"]), k \in StoredPatterns :
      \E nested \in NestedChoices(fs), fresh \in FreshChoices(RuntimeClasses["Foo"]) :
        LoadSave(fs, k, nested,
                 Object("Foo", MakeObject(RuntimeClasses["Foo"], 0, fresh)))

NextSession ==
    \/ LoadASave
    \/ Restore
    \/ ResetState

SpecSession == InitSession /\ [][NextSession]_vars

(***************************************************************************)
(* SpecContainers: the game object keeps an array, a set and a map in its  *)
(* custom data.  Its store callback writes them with the helpers of        *)
(* FSpudStoreRestoreHelpers, and its restore callback reads them back into *)
(* an object that already holds other contents.  The archive is the        *)
(* sequence of the values written.                                         *)
(***************************************************************************)
\* USpudStateCustomData::Init over an archive that is saving or loading
CustomDataOver(Mode, Data) ==
    [Mode |-> Mode, Data |-> Data, Pos |-> 1, ChunkStack |-> <<>>]

CanRead(cd) == cd.Mode = "Loading"

CanWrite(cd) == cd.Mode = "Saving"

AtEnd(cd) == cd.Pos > Len(cd.Data)

\* USpudStateCustomData::Write
CustomData_Write(cd, Value) ==
    IF ~CanWrite(cd) THEN cd ELSE [cd EXCEPT !.Data = Append(@, Value)]

\* USpudStateCustomData::Read: the archive after the call and the value the
\* variable read into holds after it
CustomData_Read(cd, OutValue) ==
    IF ~CanRead(cd) \/ AtEnd(cd)
    THEN [Ok |-> FALSE, Value |-> OutValue, cd |-> cd]
    ELSE [Ok |-> TRUE, Value |-> cd.Data[cd.Pos], cd |-> [cd EXCEPT !.Pos = @ + 1]]

\* The loop  for (elm : array) custom_data->Write(elm)
RECURSIVE WriteElems(_, _, _)
WriteElems(cd, elems, i) ==
    IF i > Len(elems) THEN cd
    ELSE WriteElems(CustomData_Write(cd, elems[i]), elems, i + 1)

\* TArray::SetNum: the first elements are kept, new ones are default values
SetNum(array, n) == [i \in 1..n |-> IF i <= Len(array) THEN array[i] ELSE 0]

\* The loop  for (elm : array) custom_data->Read(elm)
RECURSIVE ReadElems(_, _, _)
ReadElems(cd, array, i) ==
    IF i > Len(array) THEN [cd |-> cd, Value |-> array]
    ELSE ReadElems(CustomData_Read(cd, array[i]).cd,
                   [array EXCEPT ![i] = CustomData_Read(cd, array[i]).Value], i + 1)

\* FSpudStoreRestoreHelpers::StoreSimpleArray
StoreSimpleArray(cd, array) ==
    [cd |-> WriteElems(CustomData_Write(cd, Len(array)), array, 1), Value |-> array]

\* FSpudStoreRestoreHelpers::RestoreSimpleArray
RestoreSimpleArray(cd, array) ==
    ReadElems(CustomData_Read(cd, UninitialisedValue).cd, SetNum(array, CustomData_Read(cd, UninitialisedValue).Value), 1)

\* FSpudStoreRestoreHelpers::StoreRestoreSimpleArray
StoreRestoreSimpleArray(cd, array) ==
    IF CanRead(cd) THEN RestoreSimpleArray(cd, array) ELSE StoreSimpleArray(cd, array)

\* The elements of a set in the order its iterator gives them
RECURSIVE InOrder(_)
InOrder(set) ==
    IF set = {} THEN <<>>
    ELSE LET least == CHOOSE x \in set : \A y \in set : x <= y
         IN  <<least>> \o InOrder(set \ {least})

\* FSpudStoreRestoreHelpers::StoreSimpleSet
StoreSimpleSet(cd, set) ==
    [cd |-> WriteElems(CustomData_Write(cd, Cardinality(set)), InOrder(set), 1),
     Value |-> set]

\* The loop of RestoreSimpleSet: an element is read and added, setNum times
RECURSIVE ReadAndAdd(_, _, _)
ReadAndAdd(cd, set, n) ==
    IF n <= 0 THEN [cd |-> cd, Value |-> set]
    ELSE ReadAndAdd(CustomData_Read(cd, UninitialisedValue).cd,
                    set \cup {CustomData_Read(cd, UninitialisedValue).Value}, n - 1)

\* FSpudStoreRestoreHelpers::RestoreSimpleSet: Reserve leaves the elements
\* of the set in place
RestoreSimpleSet(cd, set) ==
    ReadAndAdd(CustomData_Read(cd, UninitialisedValue).cd, set, CustomData_Read(cd, UninitialisedValue).Value)

\* FSpudStoreRestoreHelpers::StoreRestoreSimpleSet
StoreRestoreSimpleSet(cd, set) ==
    IF CanWrite(cd) THEN StoreSimpleSet(cd, set) ELSE RestoreSimpleSet(cd, set)

\* The loop  for (pair : simpleMap) { Write(pair.Key); Write(pair.Value); }
RECURSIVE WritePairs(_, _, _)
WritePairs(cd, simpleMap, keys) ==
    IF keys = <<>> THEN cd
    ELSE WritePairs(CustomData_Write(CustomData_Write(cd, Head(keys)), simpleMap[Head(keys)]),
                    simpleMap, Tail(keys))

\* The loop of the restore of a map: a key and a value are read and added,
\* numMapped times
RECURSIVE ReadPairs(_, _, _)
ReadPairs(cd, simpleMap, n) ==
    IF n <= 0 THEN [cd |-> cd, Value |-> simpleMap]
    ELSE ReadPairs(CustomData_Read(CustomData_Read(cd, UninitialisedValue).cd, UninitialisedValue).cd,
                   MapAdd(simpleMap, CustomData_Read(cd, UninitialisedValue).Value,
                          CustomData_Read(CustomData_Read(cd, UninitialisedValue).cd, UninitialisedValue).Value),
                   n - 1)

\* FSpudStoreRestoreHelpers::StoreRestoreSimpleMap
StoreRestoreSimpleMap(cd, simpleMap) ==
    IF CanWrite(cd)
    THEN [cd |-> WritePairs(CustomData_Write(cd, Cardinality(DOMAIN simpleMap)),
                            simpleMap, InOrder(DOMAIN simpleMap)),
          Value |-> simpleMap]
    ELSE ReadPairs(CustomData_Read(cd, 0).cd, simpleMap, CustomData_Read(cd, 0).Value)

\* How many elements a container of the game object holds at most
MaxElems == 2

Elems == {1, 2}

ArrayChoices == UNION {[1..n -> Elems] : n \in 0..MaxElems}

SetChoices == {s \in SUBSET (Elems \cup {3}) : Cardinality(s) <= MaxElems}

MapChoices == UNION {[ks -> {7, 8}] : ks \in {s \in SUBSET Elems : Cardinality(s) <= MaxElems}}

\* The record of the last callback of the game object
CustomCall(Op, Stored, Pre) == [Op |-> Op, Stored |-> Stored, Pre |-> Pre]

\* The three containers of the game object
GameContainers(a, s, m) == [Map |-> m, Array |-> a, Set |-> s]

\* The callbacks of the game object run the helpers over its three
\* containers, one after the other
WithArray(c, r) == [cd |-> r.cd, Value |-> [c EXCEPT !.Array = r.Value]]

WithSet(c, r) == [cd |-> r.cd, Value |-> [c EXCEPT !.Set = r.Value]]

WithMap(c, r) == [cd |-> r.cd, Value |-> [c EXCEPT !.Map = r.Value]]

StoreRestoreContainers(cd, c) ==
    LET a == WithArray(c, StoreRestoreSimpleArray(cd, c.Array))
        s == WithSet(a.Value, StoreRestoreSimpleSet(a.cd, a.Value.Set))
    IN  WithMap(s.Value, StoreRestoreSimpleMap(s.cd, s.Value.Map))

RestoreContainers(cd, c) ==
    LET a == WithArray(c, RestoreSimpleArray(cd, c.Array))
        s == WithSet(a.Value, RestoreSimpleSet(a.cd, a.Value.Set))
    IN  WithMap(s.Value, StoreRestoreSimpleMap(s.cd, s.Value.Map))

\* ISpudObjectCallback::SpudStoreCustomData of the game object, called with
\* a custom data over a writer
SpudStoreCustomData ==
    /\ custCall.Op = "None"
    /\ CustomData' = StoreRestoreContainers(CustomDataOver("Saving", <<>>), Containers).cd
    /\ custCall' = CustomCall("Store", Containers, Containers)
    /\ UNCHANGED Containers
    /\ UNCHANGED refVars
    /\ UNCHANGED propVars
    /\ UNCHANGED <<ActorObjs, threads, LevelMutex, opCall>>

\* The game makes the object the custom data is restored into; it holds the
\* contents c
NewGameObject(c) ==
    /\ custCall.Op = "Store"
    /\ Containers' = c
    /\ custCall' = CustomCall("NewObject", custCall.Stored, c)
    /\ UNCHANGED CustomData
    /\ UNCHANGED refVars
    /\ UNCHANGED propVars
    /\ UNCHANGED <<ActorObjs, threads, LevelMutex, opCall>>

\* ISpudObjectCallback::SpudRestoreCustomData of the game object, called
\* with a custom data over a reader of the stored bytes; the callback uses
\* the helpers of both directions or those that restore only
SpudRestoreCustomData(bBothWays) ==
    /\ custCall.Op = "NewObject"
    /\ LET r == IF bBothWays
                THEN StoreRestoreContainers(CustomDataOver("Loading", CustomData.Data), Containers)
                ELSE RestoreContainers(CustomDataOver("Loading", CustomData.Data), Containers)
       IN  /\ CustomData' = r.cd
           /\ Containers' = r.Value
    /\ custCall' = CustomCall("Restore", custCall.Stored, Containers)
    /\ UNCHANGED refVars
    /\ UNCHANGED propVars
    /\ UNCHANGED <<ActorObjs, threads, LevelMutex, opCall>>

InitContainers ==
    /\ InitRefIdle
    /\ InitPropIdle
    /\ ActorObjs = <<>>
    /\ threads = <<>>
    /\ LevelMutex = <<>>
    /\ opCall = NoOpCall
    /\ \E a \in ArrayChoices, s \in SetChoices, m \in MapChoices :
         Containers = GameContainers(a, s, m)
    /\ CustomData = CustomDataOver("Saving", <<>>)
    /\ custCall = CustomCall("None", <<>>, <<>>)

NewObjectWithContents ==
    \E a \in ArrayChoices, s \in SetChoices, m \in MapChoices :
        NewGameObject(GameContainers(a, s, m))

RestoreTheCustomData == \E bBothWays \in BOOLEAN : SpudRestoreCustomData(bBothWays)

NextContainers ==
    \/ SpudStoreCustomData
    \/ NewObjectWithContents
    \/ RestoreTheCustomData

SpecContainers == InitContainers /\ [][NextContainers]_vars

(***************************************************************************)
(* SpecWorld: the game thread alone stores and restores the levels of the  *)
(* world, one call after the other, and gives names to levels in between.  *)
(* The save keeps the data of a level under the name of the level; the     *)
(* data lists the actors spawned at runtime and the level actors that were *)
(* destroyed.  A call is a sequence of steps; the steps that work on the   *)
(* data of a level do so under the mutex of the data.                      *)
(***************************************************************************)
GameThread == "GameThread"

\* How many calls the game thread makes
MaxWorldCalls == 3

\* The order the actors of a level are listed in (Level->Actors)
LevelActorOrder == <<"HubDoor", "CaveKey", "Crate", "Barrel">>

\* FSpudSpawnedActorData: bClass tells whether the class of the actor can
\* still be loaded
SpawnedActorData(Actor, bClass) == [Actor |-> Actor, bClass |-> bClass]

FSpudLevelData(Spawned, Destroyed) ==
    [SpawnedActors |-> Spawned, DestroyedActors |-> Destroyed]

\* What the save may hold for a level: no data, or data with the runtime
\* actor of the level spawned or not and its level actor destroyed or not
LevelDataChoices(Level) ==
    {FSpudLevelData(s, d) :
        s \in {<<>>} \cup {<<SpawnedActorData(a, b)>> :
                              a \in {x \in RuntimeActors : ActorLevel(x) = Level},
                              b \in BOOLEAN},
        d \in {<<>>} \cup {<<a>> : a \in {x \in LevelActors : ActorLevel(x) = Level}}}

WorldEvent(ev, actor, level, known) ==
    [Ev |-> ev, Actor |-> actor, Level |-> level, Known |-> known]

NoWorldCall ==
    [Op |-> "None", Count |-> 0, Restores |-> 0, Log |-> <<>>,
     Pre |-> [ToName |-> EmptyMap, Map |-> EmptyMap, Data |-> EmptyMap]]

Logged(evs) == [opCall EXCEPT !.Log = @ \o evs]

\* USpudState::GetLevelData(LevelName, false) of the level of the step
StepLevelName(t) == GetLevelName(Current(t).Level, WorldLevelsToName)

HasLevelData(LevelName) == LevelName \in DOMAIN SaveData

\* The actors of a level, in the order of Level->Actors
ActorsIn(Level, actors) ==
    SelectSeq(LevelActorOrder, LAMBDA a : a \in DOMAIN actors /\ actors[a] = Level)

\* The game thread calls into USpudState
WorldCall(op, Level, Prog, Args) ==
    /\ Running
    /\ ~Busy(GameThread)
    /\ threads[GameThread].Calls < MaxWorldCalls
    /\ threads' = [threads EXCEPT ![GameThread] =
                     [IdleThread EXCEPT !.pc = 1, !.Prog = Prog, !.Op = op, !.Level = Level,
                                        !.Args = Args, !.Calls = threads[GameThread].Calls + 1]]
    /\ opCall' = [NoWorldCall EXCEPT !.Op = op, !.Count = opCall.Count + 1,
                     !.Pre = [ToName |-> WorldLevelsToName, Map |-> WorldLevelsMap,
                              Data |-> SaveData]]
    /\ UNCHANGED refVars
    /\ UNCHANGED <<propVars, ActorObjs, LevelMutex, custVars>>

\* USpudState::RestoreLevel(ULevel*): without data for the level it returns
\* at once
WorldRestoreLevelSteps(Level) ==
    IF HasLevelData(GetLevelName(Level, WorldLevelsToName))
    THEN <<Step("Cache", Level), Step("RespawnActors", Level), Step("RestoreActors", Level),
           Step("DestroyActors", Level), Step("Cleanup", Level)>>
    ELSE <<Step("Return", Level)>>

\* USpudState::StoreLevel: GetLevelData creates the data when there is none
WorldStoreLevelSteps(Level) ==
    <<Step("Cache", Level), Step("StoreActors", Level), Step("Cleanup", Level)>>

\* RestoreLoadedWorld as it would be with one loop over the levels, each
\* level respawning its actors and then restoring the properties of its own
FullWorldSteps_LevelByLevel ==
    <<Step("WorldStart", NullLevel)>>
        \o <<Step("WorldName", LevelOrder[1]), Step("RespawnActors", LevelOrder[1])>>
        \o <<Step("RestoreActors", LevelOrder[1]), Step("DestroyActors", LevelOrder[1])>>
        \o <<Step("WorldName", LevelOrder[2]), Step("RespawnActors", LevelOrder[2])>>
        \o <<Step("RestoreActors", LevelOrder[2]), Step("DestroyActors", LevelOrder[2])>>
        \o <<Step("Cleanup", NullLevel)>>

\* USpudState::RestoreLoadedWorld, full world
FullWorldSteps ==
    <<Step("WorldStart", NullLevel)>>
        \o <<Step("WorldName", LevelOrder[1]), Step("RespawnActors", LevelOrder[1])>>
        \o <<Step("WorldName", LevelOrder[2]), Step("RespawnActors", LevelOrder[2])>>
        \o <<Step("RestoreActors", LevelOrder[1]), Step("DestroyActors", LevelOrder[1])>>
        \o <<Step("RestoreActors", LevelOrder[2]), Step("DestroyActors", LevelOrder[2])>>
        \o <<Step("Cleanup", NullLevel)>>

WorldRestoreLevel ==
    \E Level \in Levels, Target \in RefTargets :
        WorldCall("RestoreLevel", Level, WorldRestoreLevelSteps(Level),
                  WithStoredRef(Level, StoredRefTo(Target)))

WorldStoreLevel ==
    \E Level \in Levels :
        WorldCall("StoreLevel", Level, WorldStoreLevelSteps(Level),
                  [NoArgs EXCEPT !.Actor = HolderOf(Level)])

WorldRestoreLoadedWorld ==
    \E Level \in Levels, Target \in RefTargets :
        WorldCall("RestoreLoadedWorld", NullLevel, FullWorldSteps,
                  WithStoredRef(Level, StoredRefTo(Target)))

\* The steps of the game thread leave these alone
worldHostVars == <<WorldLevels, PatchNamesMapping, RuntimeClasses, LiveObj, loaded,
                   storeCall, restoreCall, LevelMutex, custVars>>

\* RestoreLevel lines 498-502: no data for the level
Return ==
    /\ At(GameThread, "Return")
    /\ threads' = [threads EXCEPT ![GameThread] = Advance(@)]
    /\ opCall' = Logged(<<WorldEvent("Skip", NullActor, Current(GameThread).Level,
                                     DOMAIN RuntimeObjectsByGuid)>>)
    /\ UNCHANGED <<RuntimeObjectsByGuid, WorldLevelsMap, WorldLevelsToName, refCall,
                   SaveData, ActorObjs>>
    /\ UNCHANGED worldHostVars

\* USpudState::RespawnActor for the spawned actors spawned[i..]: an actor
\* whose class is not found is not spawned
RECURSIVE RespawnActors(_, _, _, _)
RespawnActors(spawned, i, Level, w) ==
    IF i > Len(spawned)
    THEN w
    ELSE RespawnActors(spawned, i + 1, Level,
            IF spawned[i].bClass
            THEN [Objects |-> MapAdd(w.Objects, ActorGuid(spawned[i].Actor), spawned[i].Actor),
                  Actors  |-> MapAdd(w.Actors, spawned[i].Actor, Level),
                  Log     |-> Append(w.Log,
                                WorldEvent("Respawn", spawned[i].Actor, Level,
                                           DOMAIN w.Objects \cup {ActorGuid(spawned[i].Actor)}))]
            ELSE [w EXCEPT !.Log = Append(@, WorldEvent("RespawnFailed", spawned[i].Actor,
                                                        Level, DOMAIN w.Objects))])

\* USpudState::RestoreLevelSpawnedActors, and lines 1135-1146 around it
RestoreLevelSpawnedActors ==
    /\ At(GameThread, "RespawnActors")
    /\ threads' = [threads EXCEPT ![GameThread] = Advance(@)]
    /\ IF HasLevelData(StepLevelName(GameThread))
       THEN LET w == RespawnActors(SaveData[StepLevelName(GameThread)].SpawnedActors, 1,
                                   Current(GameThread).Level,
                                   [Objects |-> RuntimeObjectsByGuid, Actors |-> ActorObjs,
                                    Log |-> <<>>])
            IN  /\ RuntimeObjectsByGuid' = w.Objects
                /\ ActorObjs' = w.Actors
                /\ opCall' = Logged(w.Log)
       ELSE /\ opCall' = Logged(<<WorldEvent("Skip", NullActor, Current(GameThread).Level,
                                             DOMAIN RuntimeObjectsByGuid)>>)
            /\ UNCHANGED <<RuntimeObjectsByGuid, ActorObjs>>
    /\ UNCHANGED <<WorldLevelsMap, WorldLevelsToName, refCall, SaveData>>
    /\ UNCHANGED worldHostVars

\* The calls of RestoreActor for the actors of a level
RestoreEvents(Level) ==
    [i \in 1..Len(ActorsIn(Level, ActorObjs)) |->
        WorldEvent("Restore", ActorsIn(Level, ActorObjs)[i], Level,
                   DOMAIN RuntimeObjectsByGuid)]

\* USpudState::RestoreLevelActorProperties, and lines 1154-1168 around it:
\* the actors of the level are restored, the reference property of the
\* level actor of the call among them
WorldRestoreLevelActorProperties ==
    /\ At(GameThread, "RestoreActors")
    /\ threads' = [threads EXCEPT ![GameThread] = Advance(@)]
    /\ IF HasLevelData(StepLevelName(GameThread))
       THEN /\ opCall' = Logged(RestoreEvents(Current(GameThread).Level))
            /\ IF /\ threads[GameThread].Args.Actor \in DOMAIN ActorObjs
                  /\ ActorObjs[threads[GameThread].Args.Actor] = Current(GameThread).Level
               THEN \E r \in GetReferencedActor(threads[GameThread].Args.LevelRef,
                                                threads[GameThread].Args.ActorRef,
                                                GetWorldReferenceLookups,
                                                Current(GameThread).Level) :
                      refCall' = [refCall EXCEPT !.Outcome = OutcomeOf(r)]
               ELSE UNCHANGED refCall
       ELSE /\ opCall' = Logged(<<WorldEvent("Skip", NullActor, Current(GameThread).Level,
                                             DOMAIN RuntimeObjectsByGuid)>>)
            /\ UNCHANGED refCall
    /\ UNCHANGED <<RuntimeObjectsByGuid, WorldLevelsMap, WorldLevelsToName, SaveData, ActorObjs>>
    /\ UNCHANGED worldHostVars

\* USpudState::DestroyActor for the destroyed actors destroyed[i..]: the
\* actor is looked for in the level, and destroyed when it is found
RECURSIVE DestroyActors(_, _, _, _)
DestroyActors(destroyed, i, Level, w) ==
    IF i > Len(destroyed)
    THEN w
    ELSE DestroyActors(destroyed, i + 1, Level,
            IF destroyed[i] \in DOMAIN w.Actors /\ w.Actors[destroyed[i]] = Level
            THEN [w EXCEPT !.Actors = MapRemove(@, destroyed[i]),
                           !.Log = Append(@, WorldEvent("Destroy", destroyed[i], Level,
                                                        DOMAIN w.Objects))]
            ELSE w)

\* RestoreLevel lines 535-539, RestoreLoadedWorld lines 1170-1174
DestroyLevelActors ==
    /\ At(GameThread, "DestroyActors")
    /\ threads' = [threads EXCEPT ![GameThread] = Advance(@)]
    /\ IF HasLevelData(StepLevelName(GameThread))
       THEN LET w == DestroyActors(SaveData[StepLevelName(GameThread)].DestroyedActors, 1,
                                   Current(GameThread).Level,
                                   [Objects |-> RuntimeObjectsByGuid, Actors |-> ActorObjs,
                                    Log |-> <<>>])
            IN  /\ ActorObjs' = w.Actors
                /\ opCall' = Logged(w.Log)
       ELSE UNCHANGED <<ActorObjs, opCall>>
    /\ UNCHANGED <<RuntimeObjectsByGuid, WorldLevelsMap, WorldLevelsToName, refCall, SaveData>>
    /\ UNCHANGED worldHostVars

\* StoreLevel lines 73-87: the data of the level, created when there was
\* none, lists the runtime actors the level holds
WorldStoreActors ==
    /\ At(GameThread, "StoreActors")
    /\ threads' = [threads EXCEPT ![GameThread] = Advance(@)]
    /\ LET Level == Current(GameThread).Level
           LevelName == StepLevelName(GameThread)
           held == SelectSeq(ActorsIn(Level, ActorObjs), LAMBDA a : a \in RuntimeActors)
       IN  /\ SaveData' = MapAdd(SaveData, LevelName,
                 FSpudLevelData([i \in 1..Len(held) |-> SpawnedActorData(held[i], TRUE)],
                                IF HasLevelData(LevelName)
                                THEN SaveData[LevelName].DestroyedActors ELSE <<>>))
           /\ opCall' = Logged([i \in 1..Len(ActorsIn(Level, ActorObjs)) |->
                                   WorldEvent("Store", ActorsIn(Level, ActorObjs)[i], Level,
                                              DOMAIN RuntimeObjectsByGuid)])
    /\ UNCHANGED <<RuntimeObjectsByGuid, WorldLevelsMap, WorldLevelsToName, refCall, ActorObjs>>
    /\ UNCHANGED worldHostVars

\* The host gives a name to a level between two calls
WorldAssignName ==
    /\ ~Busy(GameThread)
    /\ \E Level \in Levels, NameToAssign \in AssignableNames :
          AssignNameToLevel(Level, NameToAssign)

InitWorld ==
    /\ WorldLevels = Levels
    /\ RuntimeObjectsByGuid = EmptyMap
    /\ WorldLevelsMap = EmptyMap
    /\ WorldLevelsToName = EmptyMap
    /\ PatchNamesMapping = EmptyMap
    /\ refCall = NoRefCall
    /\ RuntimeClasses = EmptyMap
    /\ LiveObj = NoStoreCall.Obj
    /\ \E held \in SUBSET Levels :
         \E data \in [held -> UNION {LevelDataChoices(l) : l \in Levels}] :
            /\ \A l \in held : data[l] \in LevelDataChoices(l)
            /\ SaveData = [n \in {OuterName(l) : l \in held} |->
                             data[CHOOSE l \in held : OuterName(l) = n]]
    /\ loaded = TRUE
    /\ storeCall = NoStoreCall
    /\ restoreCall = NoRestoreCall
    /\ ActorObjs = [a \in LevelActors |-> ActorLevel(a)]
    /\ threads = [t \in Threads |-> IdleThread]
    /\ LevelMutex = [l \in Levels |-> NoThread]
    /\ opCall = NoWorldCall
    /\ InitCustIdle

NextWorld ==
    \/ WorldRestoreLevel
    \/ WorldStoreLevel
    \/ WorldRestoreLoadedWorld
    \/ WorldAssignName
    \/ Return
    \/ Cache(GameThread)
    \/ RestoreLevelSpawnedActors
    \/ WorldRestoreLevelActorProperties
    \/ DestroyLevelActors
    \/ WorldStoreActors
    \/ Cleanup(GameThread)
    \/ WorldStart(GameThread)
    \/ WorldName(GameThread)

SpecWorld == InitWorld /\ [][NextWorld]_vars

(***************************************************************************)
(* SpecChunks: the callbacks of a game object frame their custom data in   *)
(* chunks.  The object writes values and opens and closes chunks on a      *)
(* saving USpudStateCustomData; then a loading one is made over the same   *)
(* archive and the object reads it back.  In the archive a chunk is a      *)
(* header of two cells, its magic and the length of its content, followed  *)
(* by the content.                                                         *)
(***************************************************************************)
\* How many calls are made on the custom data
MaxChunkCalls == 6

\* The chunk IDs the callbacks use: one has more than four characters
ChunkIDs == { <<"S", "A", "V", "E">>, <<"S", "A", "V", "E", "2">>, <<"I", "N", "V">> }

\* FSpudChunk::Magic: the first four characters of the ID
FirstFour(MagicID) == SubSeq(MagicID, 1, IF Len(MagicID) > 4 THEN 4 ELSE Len(MagicID))

\* The cell a magic is written as
MagicCell(Magic) == IF Magic = <<"S", "A", "V", "E">> THEN -1 ELSE -2

\* Where the underlying archive stands
Tell(cd) == IF CanWrite(cd) THEN Len(cd.Data) + 1 ELSE cd.Pos

\* FSpudAdhocWrapperChunk made for the ID, with the place its header starts
FSpudAdhocWrapperChunk(MagicID, cd) == [Magic |-> FirstFour(MagicID), Start |-> Tell(cd)]

\* FSpudChunk::ChunkStart: a saving archive gets the header, a loading one
\* must have the header of this magic next
ChunkStart(Chunk, cd) ==
    IF CanWrite(cd)
    THEN [Ok |-> TRUE, cd |-> [cd EXCEPT !.Data = @ \o <<MagicCell(Chunk.Magic), 0>>]]
    ELSE IF cd.Pos + 1 <= Len(cd.Data) /\ cd.Data[cd.Pos] = MagicCell(Chunk.Magic)
    THEN [Ok |-> TRUE, cd |-> [cd EXCEPT !.Pos = @ + 2]]
    ELSE [Ok |-> FALSE, cd |-> cd]

\* FSpudChunk::ChunkEnd: a saving archive gets the length of the content in
\* the header, a loading one is moved to the end of the content
ChunkEnd(Chunk, cd) ==
    IF Chunk.Start + 1 > Len(cd.Data)
    THEN cd
    ELSE IF CanWrite(cd)
    THEN [cd EXCEPT !.Data[Chunk.Start + 1] = Len(cd.Data) - (Chunk.Start + 1)]
    ELSE [cd EXCEPT !.Pos = Chunk.Start + 2 + cd.Data[Chunk.Start + 1]]

\* FSpudChunk::IsStillInChunk
Chunk_IsStillInChunk(Chunk, cd) ==
    IF CanWrite(cd) \/ Chunk.Start + 1 > Len(cd.Data)
    THEN TRUE
    ELSE cd.Pos < Chunk.Start + 2 + cd.Data[Chunk.Start + 1]

Top(stack) == stack[Len(stack)]

Pop(stack) == SubSeq(stack, 1, Len(stack) - 1)

\* strncmp(ChunkStack.Top()->Magic, CharStr.Get(), 4) == 0
SameMagic(Chunk, MagicID) == Chunk.Magic = FirstFour(MagicID)

\* USpudStateCustomData::BeginWriteChunk
BeginWriteChunk(cd, MagicID) ==
    [ChunkStart(FSpudAdhocWrapperChunk(MagicID, cd), cd).cd
        EXCEPT !.ChunkStack = Append(@, FSpudAdhocWrapperChunk(MagicID, cd))]

\* BeginReadChunk as it would be if it pushed the chunk whatever ChunkStart
\* answered, as BeginWriteChunk does
BeginReadChunk_AlwaysPushes(cd, MagicID) ==
    LET bOK == ChunkStart(FSpudAdhocWrapperChunk(MagicID, cd), cd)
    IN  [Ret |-> bOK.Ok,
         cd  |-> [bOK.cd EXCEPT !.ChunkStack = Append(@, FSpudAdhocWrapperChunk(MagicID, cd))]]

\* USpudStateCustomData::BeginReadChunk
BeginReadChunk(cd, MagicID) ==
    LET bOK == ChunkStart(FSpudAdhocWrapperChunk(MagicID, cd), cd)
    IN  [Ret |-> bOK.Ok,
         cd  |-> IF bOK.Ok
                 THEN [bOK.cd EXCEPT !.ChunkStack =
                                        Append(@, FSpudAdhocWrapperChunk(MagicID, cd))]
                 ELSE bOK.cd]

\* USpudStateCustomData::EndWriteChunk
EndWriteChunk(cd, MagicID) ==
    IF Len(cd.ChunkStack) = 0
    THEN [Log |-> "Error", cd |-> cd]
    ELSE IF ~SameMagic(Top(cd.ChunkStack), MagicID)
    THEN [Log |-> "Fatal", cd |-> cd]
    ELSE [Log |-> "None",
          cd  |-> ChunkEnd(Top(cd.ChunkStack), [cd EXCEPT !.ChunkStack = Pop(@)])]

\* USpudStateCustomData::EndReadChunk
EndReadChunk(cd, MagicID) ==
    IF Len(cd.ChunkStack) = 0
    THEN [Log |-> "Error", cd |-> cd]
    ELSE IF ~SameMagic(Top(cd.ChunkStack), MagicID)
    THEN [Log |-> "Fatal", cd |-> cd]
    ELSE [Log |-> "None",
          cd  |-> ChunkEnd(Top(cd.ChunkStack), [cd EXCEPT !.ChunkStack = Pop(@)])]

\* USpudStateCustomData::IsStillInChunk
IsStillInChunk(cd, MagicID) ==
    IF Len(cd.ChunkStack) = 0
    THEN FALSE
    ELSE IF ~SameMagic(Top(cd.ChunkStack), MagicID)
    THEN FALSE
    ELSE Chunk_IsStillInChunk(Top(cd.ChunkStack), cd)

ChunkCall(Op, MagicID, Ret, Log, Count) ==
    [Op |-> Op, ID |-> MagicID, Ret |-> Ret, Log |-> Log, Count |-> Count]

\* A call on the custom data; a Fatal log ends the process
CalledOnCustomData(Op, MagicID, Ret, Log, cd) ==
    /\ custCall.Log # "Fatal"
    /\ custCall.Count < MaxChunkCalls
    /\ CustomData' = cd
    /\ custCall' = ChunkCall(Op, MagicID, Ret, Log, custCall.Count + 1)
    /\ UNCHANGED Containers
    /\ UNCHANGED refVars
    /\ UNCHANGED propVars
    /\ UNCHANGED <<ActorObjs, threads, LevelMutex, opCall>>

CallBeginWriteChunk ==
    \E MagicID \in ChunkIDs :
        CalledOnCustomData("BeginWriteChunk", MagicID, FALSE, "None",
                           BeginWriteChunk(CustomData, MagicID))

CallEndWriteChunk ==
    \E MagicID \in ChunkIDs :
        CalledOnCustomData("EndWriteChunk", MagicID, FALSE,
                           EndWriteChunk(CustomData, MagicID).Log,
                           EndWriteChunk(CustomData, MagicID).cd)

CallBeginReadChunk ==
    \E MagicID \in ChunkIDs :
        CalledOnCustomData("BeginReadChunk", MagicID,
                           BeginReadChunk(CustomData, MagicID).Ret, "None",
                           BeginReadChunk(CustomData, MagicID).cd)

CallEndReadChunk ==
    \E MagicID \in ChunkIDs :
        CalledOnCustomData("EndReadChunk", MagicID, FALSE,
                           EndReadChunk(CustomData, MagicID).Log,
                           EndReadChunk(CustomData, MagicID).cd)

CallIsStillInChunk ==
    \E MagicID \in ChunkIDs :
        CalledOnCustomData("IsStillInChunk", MagicID,
                           IsStillInChunk(CustomData, MagicID), "None", CustomData)

\* A value is written in the chunk that is open
WriteValue ==
    CalledOnCustomData("Write", <<>>, CanWrite(CustomData), "None",
                       CustomData_Write(CustomData, 1))

ReadValue ==
    CalledOnCustomData("Read", <<>>, CustomData_Read(CustomData, 0).Ok, "None",
                       CustomData_Read(CustomData, 0).cd)

\* The save is loaded: a USpudStateCustomData is made over what was written
StartLoading ==
    /\ custCall.Log # "Fatal"
    /\ CanWrite(CustomData)
    /\ CustomData' = CustomDataOver("Loading", CustomData.Data)
    /\ custCall' = ChunkCall("Init", <<>>, FALSE, "None", custCall.Count)
    /\ UNCHANGED Containers
    /\ UNCHANGED refVars
    /\ UNCHANGED propVars
    /\ UNCHANGED <<ActorObjs, threads, LevelMutex, opCall>>

InitChunks ==
    /\ InitRefIdle
    /\ InitPropIdle
    /\ ActorObjs = <<>>
    /\ threads = <<>>
    /\ LevelMutex = <<>>
    /\ opCall = NoOpCall
    /\ Containers = <<>>
    /\ CustomData = CustomDataOver("Saving", <<>>)
    /\ custCall = ChunkCall("None", <<>>, FALSE, "None", 0)

NextChunks ==
    \/ CallBeginWriteChunk
    \/ CallEndWriteChunk
    \/ CallBeginReadChunk
    \/ CallEndReadChunk
    \/ CallIsStillInChunk
    \/ WriteValue
    \/ ReadValue
    \/ StartLoading

SpecChunks == InitChunks /\ [][NextChunks]_vars

(***************************************************************************)
(* Properties of store and restore                                         *)
(***************************************************************************)
StoredFields == storeCall.Classes["Foo"]

LiveFields == RuntimeClasses["Foo"]

FieldNames(fs) == {fs[i].Name : i \in 1..Len(fs)}

\* The restore wrote into obj every value and every nested object that was
\* stored under a field named in names
HasStoredValues(obj, names) ==
    /\ \A p \in DOMAIN storeCall.Obj.Vals :
          p[1] \in names => (p \in DOMAIN obj.Vals /\ obj.Vals[p] = storeCall.Obj.Vals[p])
    /\ \A p \in DOMAIN storeCall.Obj.Objs :
          p[1] \in names => (p \in DOMAIN obj.Objs /\ obj.Objs[p] = storeCall.Obj.Objs[p])

\* The restore left obj as it was under every field that is not in names
KeepsOtherValues(obj, names) ==
    /\ \A p \in DOMAIN restoreCall.Pre.Vals :
          p[1] \notin names => (p \in DOMAIN obj.Vals /\ obj.Vals[p] = restoreCall.Pre.Vals[p])
    /\ \A p \in DOMAIN restoreCall.Pre.Objs :
          p[1] \notin names => (p \in DOMAIN obj.Objs /\ obj.Objs[p] = restoreCall.Pre.Objs[p])

Events(trace) == {trace[i].Ev : i \in 1..Len(trace)}

NoError(trace) == Events(trace) \cap {"Error", "Exhausted", "ArchiveError"} = {}

Restored == loaded /\ restoreCall.Done

\* C1: round trip.  When the class of the object is the same at the restore
\* as it was at the store, restoring the stored record into a fresh instance
\* gives every persistent field (the members of its structs and the fields
\* of its nested object included) the value it had when the object was
\* stored.
C1_RoundTrip ==
    (Restored /\ RuntimeClasses = storeCall.Classes)
        => /\ LiveObj.Class = storeCall.Obj.Class
           /\ LiveObj.Vals = storeCall.Obj.Vals
           /\ LiveObj.Objs = storeCall.Obj.Objs

\* A fresh instance, which held other values and another nested object, now
\* holds the stored struct members and the stored nested object
C1_Witness ==
    /\ Restored
    /\ RuntimeClasses = storeCall.Classes
    /\ HasField(LiveFields, "S")
    /\ HasField(LiveFields, "O")
    /\ storeCall.Obj.Objs[<<"O">>] = "InnerA"
    /\ restoreCall.Pre.Objs[<<"O">>] = "InnerB"
    /\ restoreCall.Pre.Vals # storeCall.Obj.Vals
    /\ LiveObj.Vals = storeCall.Obj.Vals
    /\ LiveObj.Objs = storeCall.Obj.Objs

\* What the restore of the same record into the same instance gives when
\* the slow path is forced and when it is not
OtherPathState == RestoredState(restoreCall.Pre, ~restoreCall.RequireSlow, FALSE)

PathEvents(trace) == Events(trace) \cap {"FastPath", "SlowPath"}

\* The restore that ended in st went down the other path, for the object
\* and for its nested object, and left the object as the restore done did
SameByOtherPath(st) ==
    /\ PathEvents(st.Trace) = (IF restoreCall.RequireSlow THEN {"FastPath"} ELSE {"SlowPath"})
    /\ st.Vals = LiveObj.Vals
    /\ st.Objs = LiveObj.Objs

\* C2: fast/slow equivalence.  With the class unchanged since the store, the
\* restore of a record with bTestRequireSlowPath set goes down the slow path
\* and the restore without it goes down the fast path, and the two leave the
\* object in the same state.
C2_FastSlowEquivalence ==
    (Restored /\ RuntimeClasses = storeCall.Classes)
        => /\ PathEvents(restoreCall.Trace)
                 = (IF restoreCall.RequireSlow THEN {"SlowPath"} ELSE {"FastPath"})
           /\ SameByOtherPath(OtherPathState)

\* The slow path was forced on an object with a struct and a nested object,
\* and wrote values the instance did not hold before
C2_Witness ==
    /\ Restored
    /\ RuntimeClasses = storeCall.Classes
    /\ restoreCall.RequireSlow
    /\ HasField(LiveFields, "S")
    /\ HasField(LiveFields, "O")
    /\ storeCall.Obj.Objs[<<"O">>] = "InnerA"
    /\ LiveObj.Vals # restoreCall.Pre.Vals
    /\ PathEvents(restoreCall.Trace) = {"SlowPath"}
    /\ SameByOtherPath(OtherPathState)

\* C3: additive evolution.  When the live class is the stored class with one
\* field added, the restore (not forced either way) takes the slow path,
\* gives every stored field its stored value, leaves the added field as it
\* was, and reports no error.
C3_AdditiveEvolution ==
    (Restored /\ LiveFields \in Added(StoredFields)
              /\ ~restoreCall.RequireFast)
        => /\ restoreCall.Trace[1].Ev = "SlowPath"
           /\ HasStoredValues(LiveObj, FieldNames(StoredFields))
           /\ KeepsOtherValues(LiveObj, FieldNames(StoredFields))
           /\ NoError(restoreCall.Trace)

C5_ReorderedFields ==
    (Restored /\ LiveFields \in Reordered(StoredFields)
              /\ ~restoreCall.RequireFast)
        => HasStoredValues(LiveObj, FieldNames(LiveFields))

\* The storage types the visit of a class meets, in order: a struct gives
\* those of its members, any other property its own
RECURSIVE LiveTypes(_)
LiveTypes(fs) ==
    IF Len(fs) = 0 THEN <<>>
    ELSE (IF IsCustomStructProperty(fs[1]) THEN LiveTypes(fs[1].Members)
          ELSE <<GetPropertyDataType(fs[1])>>) \o LiveTypes(Tail(fs))

StoredTypes(ClassDef) ==
    [i \in 1..Len(ClassDef.Properties) |-> ClassDef.Properties[i].DataType]

RootClassDef == SaveData.Meta.ClassDefs[GetClassDef(SaveData.Meta, "Foo")]

Owner(ev) == SubSeq(ev.Path, 1, Len(ev.Path) - 1)

\* C6: the fast path is not abandoned.  When the stored property iterator is
\* exhausted at a field of an object, no slow path is started for that
\* object and none of its later fields is written, an error is reported,
\* and the restore goes on.
C6_FastPathNotAbandoned ==
    Restored =>
      \A i \in 1..Len(restoreCall.Trace) :
        restoreCall.Trace[i].Ev = "Exhausted" =>
          /\ \A j \in (i + 1)..Len(restoreCall.Trace) :
               LET ev == restoreCall.Trace[j]
               IN  /\ ~(ev.Ev = "SlowPath" /\ ev.Path = Owner(restoreCall.Trace[i]))
                   /\ ~(ev.Ev = "Read" /\ Owner(ev) = Owner(restoreCall.Trace[i]))
          /\ \E j \in i..Len(restoreCall.Trace) : restoreCall.Trace[j].Ev = "Error"

(***************************************************************************)
(* Properties of actor references                                          *)
(***************************************************************************)
DecodeOps == {"GetReferenceStringActor", "RestoreLevel"}

EncodeOps == {"GetActorReferenceString", "StoreLevel"}

SilentNull == {ActorResult(FALSE, NullActor, <<>>)}

\* C8: the null reference.  Encoding no actor gives the pair of empty
\* strings, and decoding a pair whose actor reference is empty gives no
\* actor, silently, whatever the level reference, the fallback level, the
\* referencing actor and the tables are.
C8_NullReference ==
    /\ LET enc == GetActorReferenceString(NullActor, GetWorldReferenceLookups)
           low == SpudPropertyUtil_GetActorReferenceString(NullActor, GetWorldReferenceLookups)
       IN  /\ IsEmpty(enc.LevelRef) /\ IsEmpty(enc.ActorRef)
           /\ IsEmpty(low.LevelRef) /\ IsEmpty(low.ActorRef)
    /\ \A LevelRefString \in LevelRefStrings :
         /\ \A Level \in Levels \cup {NullLevel} :
              GetReferencedActor(LevelRefString, EmptyString,
                                 GetWorldReferenceLookups, Level) = SilentNull
         /\ \A ReferencingActor \in Actors \cup {NullActor} :
              GetReferenceStringActor(LevelRefString, EmptyString, ReferencingActor,
                                      GetWorldReferenceLookups) = SilentNull
    /\ (refCall.Op \in EncodeOps /\ refCall.Target = NullActor)
          => (IsEmpty(refCall.LevelRef) /\ IsEmpty(refCall.ActorRef))
    /\ (refCall.Op \in DecodeOps /\ IsEmpty(refCall.ActorRef))
          => (refCall.Outcome = "Returned" /\ refCall.Actor = NullActor
              /\ refCall.Log = <<>>)

\* A level was restored whose data held an empty actor reference with the
\* name of a level that is not loaded, while levels had assigned names
C8_Witness ==
    /\ refCall.Op = "RestoreLevel"
    /\ IsEmpty(refCall.ActorRef)
    /\ refCall.LevelRef = <<"Gone">>
    /\ WorldLevelsToName # EmptyMap
    /\ RuntimeObjectsByGuid # EmptyMap
    /\ refCall.Outcome = "Returned"
    /\ refCall.Actor = NullActor

\* The runtime actor that carries the GUID g
ActorOfGuid(g) == CHOOSE a \in RuntimeActors : ActorGuid(a) = g

\* C9: the runtime reference.  A runtime actor with GUID G encodes to
\* ("", "{G}"), and decoding that pair gives the same actor whenever the
\* runtime-object map holds G, whatever the level tables and the fallback
\* level are.
C9_RuntimeReference ==
    /\ \A a \in RuntimeActors :
         LET enc == SpudPropertyUtil_GetActorReferenceString(a, GetWorldReferenceLookups)
         IN  /\ enc.Ret
             /\ IsEmpty(enc.LevelRef)
             /\ enc.ActorRef = <<"{", ActorGuid(a), "}">>
             /\ MapContains(RuntimeObjectsByGuid, ActorGuid(a))
                  => \A Level \in Levels \cup {NullLevel} :
                       GetReferencedActor(enc.LevelRef, enc.ActorRef,
                                          GetWorldReferenceLookups, Level)
                         = {ActorResult(FALSE, a, <<>>)}
    /\ \A g \in Guids :
         (refCall.Op \in DecodeOps /\ refCall.ActorRef = <<"{", g, "}">>
            /\ g \in refCall.KnownGuids
            /\ (refCall.Op = "GetReferenceStringActor" => refCall.Referencing # NullActor))
           => (refCall.Outcome = "Returned" /\ refCall.Actor = ActorOfGuid(g))
    /\ (refCall.Op \in EncodeOps /\ refCall.Target \in RuntimeActors)
          => (refCall.Ret /\ IsEmpty(refCall.LevelRef)
              /\ refCall.ActorRef = <<"{", ActorGuid(refCall.Target), "}">>)

\* The restore of the cave decoded a reference to the crate, a runtime actor
\* that an earlier restore of the hub had respawned, under a level reference
\* that names no loaded level
C9_Witness ==
    /\ refCall.Op = "RestoreLevel"
    /\ ActorLevel(refCall.Referencing) = "LvlCave"
    /\ refCall.ActorRef = <<"{", "G1", "}">>
    /\ refCall.LevelRef = <<"Gone">>
    /\ refCall.Actor = "Crate"
    /\ WorldLevelsToName # EmptyMap

\* C10: decoding never aborts.  Every decode returns, with the actor or
\* with none; a GUID that does not parse or is not known, a level reference
\* that is not in WorldLevelsMap, and a name the level does not hold each
\* give no actor.
C10_DecodeNeverAborts ==
    refCall.Op \in DecodeOps
      => /\ refCall.Outcome = "Returned"
         /\ refCall.Actor \in Actors \cup {NullActor}
         /\ (StartsWith(refCall.ActorRef, "{")
               /\ ParseExact(refCall.ActorRef) \notin refCall.KnownGuids)
              => refCall.Actor = NullActor
         /\ (refCall.Op = "GetReferenceStringActor" /\ ~IsEmpty(refCall.LevelRef)
               /\ ~StartsWith(refCall.ActorRef, "{"))
              => refCall.Actor = NullActor

(***************************************************************************)
(* Properties of the store of an object                                    *)
(***************************************************************************)
HoldsAsset(obj) == \E p \in DOMAIN obj.Objs : IsAsset(obj.Objs[p])

\* C11: the asset link.  A store of an object whose nested-object property
\* points to an asset reports a fatal precondition violation.
C11_AssetLinkRejected ==
    (storeCall.Done /\ HoldsAsset(storeCall.Obj))
        => "Fatal" \in Events(storeCall.Trace)

\* The slots a store of the object writes: every supported scalar property
\* (those of structs and of the nested object included) and every
\* nested-object property
SlotPaths(obj) ==
    {p \in DOMAIN obj.Vals : p[Len(p)] # UnsupportedField.Name} \cup DOMAIN obj.Objs

InNested(obj, p) == Len(p) = 2 /\ <<p[1]>> \in DOMAIN obj.Objs

\* The class whose definition the slot at path p belongs to
SlotClass(obj, p) == IF InNested(obj, p) THEN obj.Objs[<<p[1]>>] ELSE obj.Class

\* The bytes of the slot at path p of the stored object
SlotBytes(p) ==
    LET obj == storeCall.Obj
    IN  IF p \in DOMAIN obj.Objs
        THEN ToBytes(IF obj.Objs[p] = NullObject THEN SPUDDATA_CLASSID_NONE
                     ELSE GetClassDef(SaveData.Meta, obj.Objs[p]), 4)
        ELSE LET Property == IF InNested(obj, p)
                             THEN PropertyAt(NestedClassFields(obj.Objs[<<p[1]>>]), Tail(p))
                             ELSE PropertyAt(storeCall.Classes[obj.Class], p)
             IN  ToBytes(StorageCast(Property, obj.Vals[p]),
                         StorageBytes(GetPropertyDataType(Property)))

\* The prefix id and the property index of the slot at path p, 0 for an
\* index when the metadata does not know the slot
SlotPrefixID(p) ==
    IF Len(p) = 1 THEN SPUDDATA_PREFIXID_NONE
    ELSE IndexIn(SaveData.Meta.Prefixes, SubSeq(p, 1, Len(p) - 1))

SlotIndex(p) ==
    LET cls == GetClassDef(SaveData.Meta, SlotClass(storeCall.Obj, p))
    IN  IF cls = 0 THEN 0
        ELSE FindPropertyIndex(SaveData.Meta.ClassDefs[cls],
                               GetPropertyIDFromName(SaveData.Meta, p[Len(p)]),
                               SlotPrefixID(p))

\* The offsets table has an entry for the slot at path p
HasOffset(p) ==
    /\ SlotIndex(p) # 0
    /\ MapContains(SaveData.Offsets, SlotPrefixID(p))
    /\ MapContains(SaveData.Offsets[SlotPrefixID(p)], SlotIndex(p))

SlotOffset(p) == SaveData.Offsets[SlotPrefixID(p)][SlotIndex(p)]

\* The places of the buffer the slot at path p takes, going by its offset
SlotPlaces(p) == (SlotOffset(p) + 1)..(SlotOffset(p) + Len(SlotBytes(p)))

\* The buffer holds the bytes of the slot at path p at its recorded offset
SlotRecorded(p) ==
    /\ HasOffset(p)
    /\ SlotPlaces(p) \subseteq 1..Len(SaveData.Data)
    /\ SubSeq(SaveData.Data, SlotOffset(p) + 1, SlotOffset(p) + Len(SlotBytes(p)))
         = SlotBytes(p)

\* C15: the offsets of a store.  After a store, every slot written has,
\* under its prefix id and property index, the place its data starts at in
\* the buffer of this store: the bytes there are those of the slot, and no
\* two slots are given places that overlap.
C15_OffsetsRecorded ==
    storeCall.Done =>
      /\ \A p \in SlotPaths(storeCall.Obj) : SlotRecorded(p)
      /\ \A p, q \in SlotPaths(storeCall.Obj) :
           p # q => SlotPlaces(p) \cap SlotPlaces(q) = {}

\* A second store of an object with a struct and a nested object, whose
\* values and nested object had changed, recorded every slot
C15_Witness ==
    /\ storeCall.Done
    /\ storeCall.Count = 2
    /\ storeCall.Pre.Data # SaveData.Data
    /\ HasField(storeCall.Classes["Foo"], "S")
    /\ storeCall.Obj.Objs = [p \in {<<"O">>} |-> "InnerA"]
    /\ \A p \in SlotPaths(storeCall.Obj) : SlotRecorded(p)
    /\ Cardinality(SlotPaths(storeCall.Obj)) = 5

\* What the store of storeCall writes into a record that holds no offsets
FreshStore ==
    StoreObjectProperties(storeCall.Obj.Class, SPUDDATA_PREFIXID_NONE, <<>>,
        VisitorState(storeCall.Classes, storeCall.Pre.Meta, <<>>, EmptyMap,
                     storeCall.Obj, FALSE, FALSE))

SameRecord(st) ==
    /\ SaveData.Data = st.Data
    /\ SaveData.Offsets = st.Offsets

\* C16: overwritten wholesale.  After a store of an object that has a
\* record already, the property bytes, the property offsets and the custom
\* data of the record are those this store produced, with nothing left of
\* the earlier store.
C16_OverwrittenWholesale ==
    (storeCall.Done /\ storeCall.Count >= 2)
        => /\ SameRecord(FreshStore)
           /\ SaveData.CustomData
                = (IF ImplementsSpudObjectCallback(storeCall.Obj.Class)
                   THEN storeCall.Custom ELSE <<>>)

RECURSIVE TotalBytes(_)
TotalBytes(paths) ==
    IF paths = {} THEN 0
    ELSE LET p == CHOOSE q \in paths : TRUE
         IN  Len(SlotBytes(p)) + TotalBytes(paths \ {p})

\* C20: the unsupported field.  A store of an object whose class declares
\* an unsupported property reports that property, keeps nothing of it in
\* the record (no name, no bytes), and stores every supported property
\* before and after it.
C20_UnsupportedFieldSkipped ==
    (storeCall.Done /\ HasField(storeCall.Classes[storeCall.Obj.Class], "U"))
        => /\ \E i \in 1..Len(storeCall.Trace) :
                storeCall.Trace[i] = TraceEvent("Unsupported", <<"U">>, 0)
           /\ GetPropertyIDFromName(SaveData.Meta, "U") = SPUDDATA_INDEX_NONE
           /\ Len(SaveData.Data) = TotalBytes(SlotPaths(storeCall.Obj))
           /\ \A p \in SlotPaths(storeCall.Obj) : HasOffset(p)

\* The unsupported property stood between a struct and a byte, and the
\* members of the struct and the byte were stored
C20_Witness ==
    /\ storeCall.Done
    /\ LET fs == storeCall.Classes[storeCall.Obj.Class]
       IN  /\ Len(fs) = 3
           /\ fs[1].Name = "S" /\ fs[2].Name = "U" /\ fs[3].Name = "A"
    /\ Len(SaveData.Data) = 4
    /\ \A p \in {<<"S", "X">>, <<"S", "Y">>, <<"A">>} : SlotRecorded(p)

(***************************************************************************)
(* Properties of the restore of the actors of a level                      *)
(***************************************************************************)
\* The version tag the stored core data of the actor a carry
StoredVersion(a) == FromBytes(SubSeq(SaveData.Actors[a].CoreData, 1, 2))

\* The actors of the level in the order of the restore
LevelActorNames == {ActorOrder[i] : i \in 1..Len(ActorOrder)}

\* The restore of the actor a was aborted: the actor is as it was before
\* the restore, nothing was read for it and no post-restore step ran
RestoreAborted(a) ==
    /\ ActorObjs[a] = restoreCall.Pre[a]
    /\ Events(restoreCall.Trace[a]) \cap
         {"CoreData", "FastPath", "SlowPath", "CustomData", "PostRestore"} = {}

\* The actor a was restored from its record
RestoreCompleted(a) ==
    /\ ActorObjs[a].Hidden = storeCall.Obj[a].Hidden
    /\ ActorObjs[a].Transform = storeCall.Obj[a].Transform
    /\ ActorObjs[a].Vals = storeCall.Obj[a].Vals
    /\ ImplementsSpudObjectCallback(ActorObjs[a].Class)
         => /\ ActorObjs[a].Custom = storeCall.Obj[a].Custom
            /\ "PostRestore" \in Events(restoreCall.Trace[a])
    /\ "CoreData" \in Events(restoreCall.Trace[a])

\* C12: a corrupt core-data version tag is fatal for that actor only.  When
\* the stored core data of an actor carry a version other than the known
\* one, the restore of that actor is aborted (no core value, no property and
\* no custom data is restored into it, no post-restore step runs for it), an
\* error is logged, and the restore goes on with the next actor.
C12_CorruptVersionFatalForActor ==
    Restored
        => \A a \in LevelActorNames :
             IF StoredVersion(a) # CoreDataVersion
             THEN /\ RestoreAborted(a)
                  /\ "CoreCorrupt" \in Events(restoreCall.Trace[a])
             ELSE RestoreCompleted(a)

(***************************************************************************)
(* Properties of the threads                                               *)
(***************************************************************************)
\* C13: every operation that reads or writes the stored data of a level
\* (StoreLevel, the public StoreActor, StoreLevelActorDestroyed,
\* RestoreLevel, RestoreLoadedWorld, RenameLevelObject, RenameClass and
\* RenameProperty on the metadata of the level, release) holds the mutex of
\* that level for as long as it is inside the data, so no two threads are
\* inside the data of one level at the same time.
C13_LevelDataUnderMutex ==
    \A t \in Threads :
        threads[t].Inside # NullLevel
            => /\ LevelMutex[threads[t].Inside] = t
               /\ threads[Other(t)].Inside # threads[t].Inside

\* StoreLevel and RestoreLevel
PassOps == {"StoreLevel", "RestoreLevel"}

\* The pass of the thread t has stored or restored the reference, and every
\* call the other thread made meanwhile was a pass over another level
BesideOtherLevel(t) ==
    /\ threads[t].Op \in PassOps
    /\ threads[t].Result # NoResult
    /\ threads[t].With # {}
    /\ \A w \in threads[t].With : w[1] \in PassOps /\ w[2] # threads[t].Level

\* What the pass of the thread t makes of the reference when it runs alone,
\* from the runtime objects known when it began
AloneResults(t) ==
    IF threads[t].Op = "StoreLevel"
    THEN {[Kind |-> "Encoded", Ref |-> StoredRefTo(threads[t].Args.Target)]}
    ELSE {[Kind |-> "Decoded", Out |-> r] :
            r \in GetReferencedActor(threads[t].Args.LevelRef, threads[t].Args.ActorRef,
                     WorldReferenceLookupsOf(
                         RespawnAll(threads[t].Known, SpawnedOf(threads[t].Level)),
                         AloneCache.Map, AloneCache.ToName),
                     threads[t].Level)}

\* C14: store and restore of two different levels may run at the same time.
\* When StoreLevel or RestoreLevel of one level runs in one thread while
\* StoreLevel or RestoreLevel of another level runs in the other, each ends
\* with the result it has when it runs alone: the level-name tables and the
\* runtime-object map it resolves references against are not emptied or
\* changed under it by the other.
C14_DifferentLevelsConcurrently ==
    \A t \in Threads : BesideOtherLevel(t) => threads[t].Result \in AloneResults(t)

(***************************************************************************)
(* Properties of the migration calls                                       *)
(***************************************************************************)
\* The last two migration calls were the same RenameClass(A, B)
RenamedTwice ==
    /\ opCall.Op = "RenameClass"
    /\ opCall.Prev.Op = "RenameClass"
    /\ opCall.Prev.Args = opCall.Args

\* The migration calls made on the save are RenameClass("Foo", "Bar"), once
\* or twice
OnlyFooToBar ==
    /\ opCall.Op = "RenameClass"
    /\ opCall.Args = <<"Foo", "Bar">>
    /\ \/ opCall.Count = 1
       \/ opCall.Count = 2 /\ RenamedTwice

\* The object was restored after the last migration call
RestoredSinceRename == Restored /\ restoreCall.Count > opCall.Restores

\* C17: rename idempotence.  RenameClass(A, B) followed by a second
\* RenameClass(A, B) returns false the second time and changes nothing, and
\* what was stored under the class name A before the rename is found and
\* restored for a live class named B after it.
C17_RenameIdempotent ==
    /\ RenamedTwice => (~opCall.Ret /\ opCall.Post = opCall.Pre)
    /\ (RestoredSinceRename /\ OnlyFooToBar /\ LiveObj.Class = "Bar"
                            /\ RuntimeClasses["Bar"] = StoredFields)
          => /\ NoError(restoreCall.Trace)
             /\ LiveObj.Vals = storeCall.Obj.Vals
             /\ LiveObj.Objs = storeCall.Obj.Objs

\* The class was renamed, renamed again, and an object of the new class has
\* taken the values stored under the old name
C17_Witness ==
    /\ RestoredSinceRename
    /\ OnlyFooToBar
    /\ opCall.Count = 2
    /\ opCall.Prev.Ret
    /\ ~opCall.Ret
    /\ LiveObj.Class = "Bar"
    /\ RuntimeClasses["Bar"] = StoredFields
    /\ restoreCall.Pre.Vals # storeCall.Obj.Vals
    /\ LiveObj.Vals = storeCall.Obj.Vals

\* The names of the stored properties of the class at place i of Meta, in
\* their order
StoredPropertyNames(Meta, i) ==
    [j \in 1..Len(Meta.ClassDefs[i].Properties) |->
        Meta.PropertyNames[Meta.ClassDefs[i].Properties[j].PropertyID]]

\* The classes of the save whose stored properties are not those of the
\* class ClassName
OtherClassDefs(Meta, ClassName) ==
    {i \in 1..Len(Meta.ClassDefs) : Meta.ClassDefs[i].ClassName # ClassName}

\* The prefixes properties are stored under
KnownPrefixes(Meta) == {EmptyString} \cup {Meta.Prefixes[i] : i \in 1..Len(Meta.Prefixes)}

\* C18: RenameProperty on one class never changes what the stored properties
\* of another class are called.  The entry of the old name stays in place
\* and the renamed property is given a new or re-used name id, so a property
\* of another class that shares the old name and its id is still found
\* under the old name after the rename.
C18_RenamePropertyFrame ==
    opCall.Op = "RenameProperty"
        => /\ \A id \in 1..Len(opCall.Pre.PropertyNames) :
                opCall.Post.PropertyNames[id] = opCall.Pre.PropertyNames[id]
           /\ \A i \in OtherClassDefs(opCall.Pre, opCall.Args[1]) :
                /\ opCall.Post.ClassDefs[i].Properties = opCall.Pre.ClassDefs[i].Properties
                /\ StoredPropertyNames(opCall.Post, i) = StoredPropertyNames(opCall.Pre, i)
                /\ \A Prefix \in KnownPrefixes(opCall.Pre) :
                      StoredPropertyPlace(opCall.Post, opCall.Pre.ClassDefs[i].ClassName,
                                          opCall.Args[2], Prefix)
                        = StoredPropertyPlace(opCall.Pre, opCall.Pre.ClassDefs[i].ClassName,
                                              opCall.Args[2], Prefix)

\* A property A of the root class was renamed while the class of the nested
\* object stores a property under the same name id, which it still has
C18_Witness ==
    /\ opCall.Op = "RenameProperty"
    /\ opCall.Ret
    /\ opCall.Args[1] = "Foo"
    /\ opCall.Args[2] = "A"
    /\ StoredPropertyPlace(opCall.Pre, "InnerA", "A", <<"O">>) # 0
    /\ StoredPropertyPlace(opCall.Post, "InnerA", "A", <<"O">>) # 0
    /\ StoredPropertyPlace(opCall.Post, "Foo", "A", EmptyString) = 0
    /\ StoredPropertyPlace(opCall.Post, "Foo", "Z", EmptyString) # 0

(***************************************************************************)
(* Properties of the sessions of one process                               *)
(***************************************************************************)
\* The stored definition at place i of the save matches the running build,
\* computed now
MatchesNow(i) ==
    StoredClassDefMatchesRuntime(i,
        VisitorState(RuntimeClasses, SaveData.Meta, SaveData.Data, SaveData.Offsets,
                     LiveObj, FALSE, FALSE))

\* The restore went down the fast path for the root object
RootFastPath ==
    \E j \in 1..Len(restoreCall.Trace) :
        restoreCall.Trace[j].Ev = "FastPath" /\ restoreCall.Trace[j].Path = <<>>

\* C19: a cached 'matches runtime' result never outlives the metadata it was
\* computed from.  After ResetState the save holds no class definition, and
\* after LoadFromArchive every answer cached in a class definition is the
\* answer of the match against the stored schema that was loaded, so that
\* the fast path is chosen for the root object only if the loaded schema
\* matches the running class.
C19_CacheScopedToSession ==
    /\ opCall.Op = "ResetState" => SaveData.Meta.ClassDefs = <<>>
    /\ \A i \in 1..Len(SaveData.Meta.ClassDefs) :
          SaveData.Meta.ClassDefs[i].RuntimeMatchState # "NotChecked"
            => SaveData.Meta.ClassDefs[i].RuntimeMatchState
                 = (IF MatchesNow(i) THEN "Matching" ELSE "Different")
    /\ (Restored /\ RootFastPath) => RootClassDef.RuntimeMatchState = "Matching"
    /\ (Restored /\ GetClassDef(SaveData.Meta, "Foo") # 0)
          => RootClassDef.RuntimeMatchState # "NotChecked"

\* The session before cached a match for the root class, the save loaded
\* next stores the class with other fields, and its restore found the
\* difference and went down the slow path
C19_Witness ==
    /\ Restored
    /\ opCall.Op = "LoadFromArchive"
    /\ opCall.Count = 2
    /\ GetClassDef(opCall.Pre, "Foo") # 0
    /\ opCall.Pre.ClassDefs[GetClassDef(opCall.Pre, "Foo")].RuntimeMatchState = "Matching"
    /\ RootClassDef.RuntimeMatchState = "Different"
    /\ "SlowPath" \in Events(restoreCall.Trace)
    /\ ~RootFastPath

(***************************************************************************)
(* Properties of the level a name reference is resolved in                 *)
(***************************************************************************)
\* The actor reference of the last call names an actor of a level
NameReference == ~IsEmpty(refCall.ActorRef) /\ ~StartsWith(refCall.ActorRef, "{")

\* The level-name table the last decode was given: the table of the pass
\* for RestoreLevel, WorldLevelsMap as it stands for a call of the host
DecodeLevelsMap ==
    IF refCall.Op = "RestoreLevel"
    THEN CacheWorldLevels(1, WorldLevels, LevelCache(EmptyMap, WorldLevelsToName, {})).Map
    ELSE WorldLevelsMap

\* The level the last decode falls back to
DecodeFallbackLevel ==
    IF refCall.Referencing = NullActor THEN NullLevel ELSE ActorLevel(refCall.Referencing)

\* The one name tried for a level reference the table does not hold: the
\* name without its '_LevelInstance_' suffix, mapped through the patch table
\* when that has an entry for it, or, when there is no such suffix, the
\* entry of the patch table for the reference (the empty string for none)
SecondLevelName(LevelRefString, patch) ==
    LET levelInstStart == FindFromEnd(LevelRefString, "_LevelInstance_")
    IN  IF levelInstStart # 0
        THEN IF MapContains(patch, LeftOf(LevelRefString, levelInstStart))
             THEN patch[LeftOf(LevelRefString, levelInstStart)]
             ELSE LeftOf(LevelRefString, levelInstStart)
        ELSE IF MapContains(patch, LevelRefString)
             THEN patch[LevelRefString]
             ELSE EmptyString

\* The level a name reference names, NullLevel for none
NamedLevel(LevelRefString, levelsMap, patch, fallback) ==
    IF IsEmpty(LevelRefString)
    THEN fallback
    ELSE IF MapContains(levelsMap, LevelRefString)
    THEN levelsMap[LevelRefString]
    ELSE IF ~IsEmpty(SecondLevelName(LevelRefString, patch))
    THEN LevelsMapFind(levelsMap, SecondLevelName(LevelRefString, patch))
    ELSE NullLevel

\* The actor of that name in that level, NullActor for no level
NamedActor(level, name) ==
    IF level = NullLevel THEN NullActor ELSE StaticFindObject(level, name)

\* A decode of a name reference was made with a referencing actor
NameDecoded ==
    /\ refCall.Op \in DecodeOps
    /\ NameReference
    /\ refCall.Referencing # NullActor

\* C21: level resolution on decode of a name reference, stated of every
\* step that makes a decode.  With an empty
\* level reference the fallback level is searched; with a non-empty one the
\* level-name table is searched for it, and if it is absent the name without
\* its '_LevelInstance_' suffix (mapped through the patch table when that has
\* an entry), or, without such a suffix, the patch table's entry for the
\* reference is tried; the reference resolves when one of these names is in
\* the table and the level holds an object of the name.
C21_LevelResolution ==
    [][(refCall' # refCall /\ NameDecoded')
         => (/\ refCall.Outcome = "Returned"
             /\ refCall.Actor =
                  NamedActor(NamedLevel(refCall.LevelRef, DecodeLevelsMap,
                                        PatchNamesMapping, DecodeFallbackLevel),
                             refCall.ActorRef))']_vars

\* C30: a name reference that names a level is never resolved against
\* another level, stated of every step that makes a decode.  When the level reference is not empty and neither it nor
\* its patched or suffix-stripped form is in the level-name table, the
\* decode returns no actor, even if the level of the referencing actor holds
\* an object of the name.
C30_NeverWrongLevel ==
    [][(/\ refCall' # refCall
        /\ NameDecoded'
        /\ ~IsEmpty(refCall'.LevelRef)
        /\ ~MapContains(DecodeLevelsMap', refCall'.LevelRef)
        /\ ~MapContains(DecodeLevelsMap', SecondLevelName(refCall'.LevelRef, PatchNamesMapping')))
         => (refCall'.Outcome = "Returned" /\ refCall'.Actor = NullActor)]_vars

(***************************************************************************)
(* Properties of the containers in custom data                             *)
(***************************************************************************)
ContainersRestored == custCall.Op = "Restore"

\* C22: decoding a container replaces its previous contents.  After the
\* array, the set and the map are restored, each holds exactly the stored
\* elements and none of those it held before the restore.
C22_ContainerReplaced ==
    ContainersRestored
      => /\ Containers.Array = custCall.Stored.Array
         /\ Containers.Set = custCall.Stored.Set
         /\ Containers.Map = custCall.Stored.Map

\* What holds of the array, whatever it held before the restore
ArrayReplaced ==
    ContainersRestored
      => /\ Containers.Array = custCall.Stored.Array
         /\ CustomData.Pos = Len(CustomData.Data) + 1

\* What holds of the set and the map: the elements stored are in them, next
\* to those that were there before
SetAndMapMerged ==
    ContainersRestored
      => /\ Containers.Set = custCall.Pre.Set \cup custCall.Stored.Set
         /\ DOMAIN Containers.Map = DOMAIN custCall.Pre.Map \cup DOMAIN custCall.Stored.Map
         /\ \A k \in DOMAIN custCall.Stored.Map : Containers.Map[k] = custCall.Stored.Map[k]

(***************************************************************************)
(* Properties of the choice of the restore path                            *)
(***************************************************************************)
\* The places of the trace where a path was started for the object at path
PathStarts(trace, path) ==
    {j \in 1..Len(trace) : trace[j].Ev \in {"FastPath", "SlowPath"} /\ trace[j].Path = path}

\* The paths of the objects the restore went into
RestoredPaths(trace) ==
    {trace[j].Path : j \in {k \in 1..Len(trace) : trace[k].Ev \in {"FastPath", "SlowPath"}}}

\* The answer of the match check for the stored definition at place i, made
\* in this state: the cached answer, or, where none is cached, the match of
\* the stored schema against the runtime class
MatchCheck(i) ==
    IF SaveData.Meta.ClassDefs[i].RuntimeMatchState = "NotChecked"
    THEN MatchesNow(i)
    ELSE SaveData.Meta.ClassDefs[i].RuntimeMatchState = "Matching"

\* What a restore of the root object that starts in this state must have
\* done when it ends in the next one
PathChosenOnce ==
    IF GetClassDef(SaveData.Meta, LiveObj.Class) = 0
    THEN /\ RestoredPaths(restoreCall'.Trace) = {}
         /\ LiveObj' = LiveObj
    ELSE /\ Cardinality(PathStarts(restoreCall'.Trace, <<>>)) = 1
         /\ \A path \in RestoredPaths(restoreCall'.Trace) :
               Cardinality(PathStarts(restoreCall'.Trace, path)) = 1
         /\ (\E j \in PathStarts(restoreCall'.Trace, <<>>) :
                 restoreCall'.Trace[j].Ev = "FastPath")
               <=> (MatchCheck(GetClassDef(SaveData.Meta, LiveObj.Class))
                      /\ ~restoreCall'.RequireSlow)
         /\ SaveData'.Meta.ClassDefs[GetClassDef(SaveData.Meta, LiveObj.Class)].RuntimeMatchState
               # "NotChecked"

RECURSIVE FlatSlots(_, _)
FlatSlots(fs, base) ==
    IF fs = <<>> THEN <<>>
    ELSE (IF ~IsPropertySupported(Head(fs))
          THEN <<>>
          ELSE IF ~IsCustomStructProperty(Head(fs))
          THEN <<base \o <<Head(fs).Name>>>>
          ELSE IF GetNestedPrefixID(SPUDDATA_PREFIXID_NONE, Head(fs), SaveData.Meta)
                    # SPUDDATA_PREFIXID_NONE
          THEN FlatSlots(Head(fs).Members, base \o <<Head(fs).Name>>)
          ELSE <<>>)
         \o FlatSlots(Tail(fs), base)

\* The paths of the custom structs of a class
StructPaths(fs, base) ==
    {base \o <<fs[i].Name>> : i \in {j \in 1..Len(fs) : IsCustomStructProperty(fs[j])}}

Range(seq) == {seq[i] : i \in 1..Len(seq)}

\* The objects the last restore took the fast path for, by their paths
FastObjects ==
    {restoreCall.Trace[j].Path :
        j \in {k \in 1..Len(restoreCall.Trace) : restoreCall.Trace[k].Ev = "FastPath"}}

\* The class of the object at path o of the live object
ClassAt(o) == IF o = <<>> THEN LiveObj.Class ELSE LiveObj.Objs[o]

FieldsAt(o) == IF o = <<>> THEN RuntimeClasses[LiveObj.Class] ELSE NestedClassFields(LiveObj.Objs[o])

IsDecodeOf(ev, o) ==
    /\ ev.Ev \in {"Read", "Error", "ArchiveError"}
    /\ ev.Index > 0
    /\ ev.Path \in Range(FlatSlots(FieldsAt(o), o))

\* The decodes the visitor of the object at path o made, in their order
DecodesOf(o) == SelectSeq(restoreCall.Trace, LAMBDA ev : IsDecodeOf(ev, o))

\* The places of the trace where the visitor of the object at path o found
\* its stored iterator exhausted
ExhaustedAt(o) ==
    {j \in 1..Len(restoreCall.Trace) :
        /\ restoreCall.Trace[j].Ev = "Exhausted"
        /\ restoreCall.Trace[j].Path \in
              Range(FlatSlots(FieldsAt(o), o)) \cup StructPaths(FieldsAt(o), o)}

\* How many property definitions the save holds for the class of the object
StoredCount(o) == Len(SaveData.Meta.ClassDefs[GetClassDef(SaveData.Meta, ClassAt(o))].Properties)

PositionalDecode(o, decodes) ==
    /\ Len(decodes) <= Len(FlatSlots(FieldsAt(o), o))
    /\ Len(decodes) <= StoredCount(o)
    /\ \A k \in 1..Len(decodes) :
          /\ decodes[k].Index = k
          /\ decodes[k].Path = FlatSlots(FieldsAt(o), o)[k]
    /\ Cardinality(ExhaustedAt(o)) <= 1
    /\ IF ExhaustedAt(o) = {}
       THEN Len(decodes) = Len(FlatSlots(FieldsAt(o), o))
       ELSE /\ Len(decodes) = StoredCount(o)
            /\ \A j \in ExhaustedAt(o) : restoreCall.Trace[j].Index = StoredCount(o) + 1

\* C24: on the fast path the k-th live field that is not a custom struct is
\* decoded with the k-th stored property definition.  The stored iterator
\* advances exactly once for each such field and never for a custom struct,
\* it is never dereferenced at or past the end of the stored list, and once
\* it is exhausted the visit returns false and no further field is visited.
FastPathsPositional == \A o \in FastObjects : PositionalDecode(o, DecodesOf(o))

RestoredLevels ==
    IF opCall.Op = "RestoreLoadedWorld" THEN Levels
    ELSE IF opCall.Op = "RestoreLevel" THEN {threads[GameThread].Level}
    ELSE {}

\* The spawned actors the save held for a level when the call was made
StoredSpawnedActors(Level) ==
    LET LevelName == GetLevelName(Level, opCall.Pre.ToName)
    IN  IF LevelName \in DOMAIN opCall.Pre.Data
        THEN Range(opCall.Pre.Data[LevelName].SpawnedActors)
        ELSE {}

LogPlaces(ev) == {i \in 1..Len(opCall.Log) : opCall.Log[i].Ev = ev}

\* The spawned actor s was respawned before place j of the log, and was by
\* then in RuntimeObjectsByGuid when its class was found
RespawnedBefore(s, j) ==
    /\ \E i \in 1..(j - 1) :
          /\ opCall.Log[i].Actor = s.Actor
          /\ opCall.Log[i].Ev = IF s.bClass THEN "Respawn" ELSE "RespawnFailed"
    /\ s.bClass => /\ ActorGuid(s.Actor) \in opCall.Log[j].Known
                   /\ MapContains(RuntimeObjectsByGuid, ActorGuid(s.Actor))
                   /\ RuntimeObjectsByGuid[ActorGuid(s.Actor)] = s.Actor

PassCalls == {"StoreLevel", "RestoreLevel", "RestoreLoadedWorld"}

\* The step returns from the call the game thread is in
Returns == Busy(GameThread) /\ ~Busy(GameThread)' /\ Running'

\* Every name the host had assigned when the call was made is still assigned
AssignedNamesKept ==
    \A Level \in DOMAIN opCall.Pre.ToName :
        /\ MapContains(WorldLevelsToName, Level)
        /\ WorldLevelsToName[Level] = opCall.Pre.ToName[Level]

Pushed(stack, MagicID) ==
    /\ Len(CustomData'.ChunkStack) = Len(stack) + 1
    /\ Pop(CustomData'.ChunkStack) = stack
    /\ Top(CustomData'.ChunkStack).Magic = FirstFour(MagicID)

\* The chunk of the ID can be started on the archive: a saving archive
\* takes any header, a loading one must have this header next
CanStartChunk(cd, MagicID) ==
    \/ cd.Mode = "Saving"
    \/ /\ cd.Pos + 1 <= Len(cd.Data)
       /\ cd.Data[cd.Pos] = MagicCell(FirstFour(MagicID))

\* The call closes the chunk on top of the stack
ClosesTop(cd, MagicID) ==
    /\ cd.ChunkStack # <<>>
    /\ SubSeq(MagicID, 1, IF Len(MagicID) > 4 THEN 4 ELSE Len(MagicID))
          = cd.ChunkStack[Len(cd.ChunkStack)].Magic

ChunkStackStep ==
    CASE custCall'.Op = "BeginWriteChunk" ->
            Pushed(CustomData.ChunkStack, custCall'.ID)
      [] custCall'.Op = "BeginReadChunk" ->
            /\ custCall'.Ret = CanStartChunk(CustomData, custCall'.ID)
            /\ IF custCall'.Ret
               THEN Pushed(CustomData.ChunkStack, custCall'.ID)
               ELSE CustomData'.ChunkStack = CustomData.ChunkStack
      [] custCall'.Op \in {"EndWriteChunk", "EndReadChunk"} ->
            IF ClosesTop(CustomData, custCall'.ID)
            THEN /\ CustomData'.ChunkStack =
                       SubSeq(CustomData.ChunkStack, 1, Len(CustomData.ChunkStack) - 1)
                 /\ custCall'.Log = "None"
            ELSE /\ CustomData'.ChunkStack = CustomData.ChunkStack
                 /\ custCall'.Log = IF CustomData.ChunkStack = <<>> THEN "Error" ELSE "Fatal"
      [] custCall'.Op = "Init" -> CustomData'.ChunkStack = <<>>
      [] OTHER -> CustomData'.ChunkStack = CustomData.ChunkStack

\* C27: the stack of open chunks changes only so: BeginWriteChunk pushes one
\* entry; BeginReadChunk pushes one entry exactly when the chunk start
\* succeeded, and returns that; EndWriteChunk and EndReadChunk pop the top
\* entry exactly when the stack is not empty and the first four characters
\* of the ID are the ID of the top entry, and leave the stack as it is
\* otherwise, with an error on an empty stack and a fatal log on another ID.
\* The chunks are closed last opened, first closed.
C27_ChunkStack == [][custCall' # custCall => ChunkStackStep]_vars

\* On a loading custom data two chunks were opened one in the other, and
\* the inner one has been closed by an ID of five characters whose first
\* four are the ID of the chunk: the outer one is the only one open
C27_Witness ==
    /\ CustomData.Mode = "Loading"
    /\ custCall.Op = "EndReadChunk"
    /\ custCall.Log = "None"
    /\ Len(custCall.ID) = 5
    /\ Len(CustomData.ChunkStack) = 1
    /\ CustomData.ChunkStack[1].Magic = <<"I", "N", "V">>

(***************************************************************************)
(* Properties of the order of the steps of RestoreActor                    *)
(***************************************************************************)
UpgradeSteps == {"PreRestoreDataModelUpgrade", "PostRestoreDataModelUpgrade"}

CallbackSteps == UpgradeSteps \cup {"PreRestore", "CustomData", "PostRestore"}

\* The step of RestoreActor an event of the trace stands for
StepOf(ev) ==
    CASE ev.Ev \in {"CoreData", "CoreCorrupt"} -> "RestoreCoreActorData"
      [] ev.Ev \in {"FastPath", "SlowPath"}    -> "RestoreObjectProperties"
      [] OTHER                                 -> ev.Ev

\* The event is a step taken for the object at path p
IsStepAt(ev, p) ==
    /\ ev.Path = p
    /\ StepOf(ev) \in CallbackSteps \cup {"RestoreCoreActorData", "RestoreObjectProperties"}

\* The steps taken for the object at path p, in their order
StepsAt(trace, p) ==
    LET evs == SelectSeq(trace, LAMBDA ev : IsStepAt(ev, p))
    IN  [i \in 1..Len(evs) |-> StepOf(evs[i])]

\* The steps of RestoreActor for an actor with callbacks, in their order
ActorSteps(StoredUserVersion) ==
    (IF GCurrentUserDataModelVersion # StoredUserVersion
     THEN <<"PreRestoreDataModelUpgrade">> ELSE <<>>)
    \o <<"PreRestore", "RestoreCoreActorData", "RestoreObjectProperties">>
    \o (IF GCurrentUserDataModelVersion # StoredUserVersion
        THEN <<"PostRestoreDataModelUpgrade">> ELSE <<>>)
    \o <<"CustomData", "PostRestore">>

\* The places of the trace where something is done to the object at path p
\* or to what it holds
PlacesOf(trace, p) ==
    {i \in 1..Len(trace) : IsStepAt(trace[i], p) \/ IsUnder(trace[i].Path, p)}

\* The restore of the properties of the object at path p, all of it, lies
\* between the steps before and the steps after it
PropertiesBetween(trace, p, before, after) ==
    \A i \in PlacesOf(trace, p) :
        \A j \in PlacesOf(trace, p) :
            /\ (trace[i].Path = p /\ trace[i].Ev \in before
                   /\ ~(trace[j].Path = p /\ trace[j].Ev \in before)) => i < j
            /\ (trace[i].Path = p /\ trace[i].Ev \in after
                   /\ ~(trace[j].Path = p /\ trace[j].Ev \in after)) => j < i

\* The nested objects the actor holds after the restore
NestedObjects(a) == {p \in DOMAIN ActorObjs[a].Objs : ActorObjs[a].Objs[p] # NullObject}

ActorStepsInOrder(a) ==
    /\ StepsAt(restoreCall.Trace[a], <<>>) = ActorSteps(SaveData.UserDataModelVersion)
    /\ PropertiesBetween(restoreCall.Trace[a], <<>>,
                         {"PreRestoreDataModelUpgrade", "PreRestore", "CoreData", "CoreCorrupt"},
                         {"PostRestoreDataModelUpgrade", "CustomData", "PostRestore"})
    /\ \A p \in NestedObjects(a) :
          /\ StepsAt(restoreCall.Trace[a], p) =
                IF ImplementsSpudObjectCallback(ActorObjs[a].Objs[p])
                THEN <<"PreRestore", "RestoreObjectProperties", "PostRestore">>
                ELSE <<"RestoreObjectProperties">>
          /\ PropertiesBetween(restoreCall.Trace[a], p, {"PreRestore"}, {"PostRestore"})
    /\ \A i \in 1..Len(restoreCall.Trace[a]) :
          restoreCall.Trace[a][i].Path # <<>>
             => restoreCall.Trace[a][i].Ev \notin UpgradeSteps \cup {"CustomData"}

\* C28: for an actor that has a stored record and implements the callback
\* interface RestoreActor takes its steps in this order, each once:
\* PreRestoreDataModelUpgrade (only when the stored user data model version
\* is not the current one), PreRestore, the core data, the properties,
\* PostRestoreDataModelUpgrade (only when the versions differ),
\* RestoreCustomData, PostRestore.  A nested object gets PreRestore and
\* PostRestore around the restore of its own properties and never a custom
\* data callback.
C28_RestoreActorOrder ==
    Restored
        => \A a \in LevelActorNames :
              (MapContains(SaveData.Actors, a) /\ ImplementsSpudObjectCallback(ActorObjs[a].Class))
                 => ActorStepsInOrder(a)

\* An actor with callbacks was restored from level data of an older user
\* data model version; it holds a nested object with callbacks, which was
\* restored within the restore of the properties of the actor
C28_Witness ==
    /\ Restored
    /\ SaveData.UserDataModelVersion # GCurrentUserDataModelVersion
    /\ ImplementsSpudObjectCallback(ActorObjs["HubDoor"].Class)
    /\ Len(StepsAt(restoreCall.Trace["HubDoor"], <<>>)) = 7
    /\ \E p \in NestedObjects("HubDoor") :
          /\ ImplementsSpudObjectCallback(ActorObjs["HubDoor"].Objs[p])
          /\ Len(StepsAt(restoreCall.Trace["HubDoor"], p)) = 3

(***************************************************************************)
(* Properties of a restore without a record                                *)
(***************************************************************************)
\* The record RestoreActor looks for is in the level data: that of a level
\* actor under its name, that of a respawnable actor under its GUID
HasStoredRecord(a) ==
    IF ShouldActorBeRespawnedOnRestore(a)
    THEN /\ ActorObjs[a].Guid # InvalidGuid
         /\ MapContains(SaveData.Actors, SpawnedKey(ActorObjs[a].Guid))
    ELSE MapContains(SaveData.Actors, a)

\* The actors RestoreActor has no record for
ActorsWithoutRecord == {a \in DOMAIN ActorObjs : ~HasStoredRecord(a)}

\* This step restores the actors of the level
RestoresActors == ~restoreCall.Done /\ restoreCall'.Done

\* This step restores a global object under an ID without a record
RestoresUnknownID ==
    /\ opCall'.Count = opCall.Count + 1
    /\ ~MapContains(SaveData.GlobalData.Objects, opCall'.ID)

\* RestoreActor left the actor a as it was and invoked none of its callbacks
ActorUntouched(a) ==
    /\ ActorObjs'[a] = ActorObjs[a]
    /\ restoreCall'.Trace[a] = <<>>

\* C29: a restore never creates data and never touches an object it has no
\* record for: RestoreActor for an actor without a stored record in the
\* level data, and RestoreGlobalObject for an ID without a stored record,
\* change nothing on the object, invoke no callback, add no record to the
\* save data, and assign no GUID to a respawnable actor that has none
C29_NoRecordNoEffect ==
    [][ /\ RestoresActors =>
            /\ \A a \in ActorsWithoutRecord : ActorUntouched(a)
            /\ SaveData'.Actors = SaveData.Actors
            /\ SaveData'.GlobalData = SaveData.GlobalData
        /\ RestoresUnknownID =>
            /\ LiveObj' = LiveObj
            /\ opCall'.Trace = <<>>
            /\ SaveData' = SaveData ]_vars

\* The level was restored with the record of the level actor missing and
\* with a runtime actor that had no GUID though the save has its record,
\* and a global object with callbacks was restored under an ID never stored
\* while another ID was
C29_Witness ==
    /\ restoreCall.Done
    /\ ~MapContains(SaveData.Actors, "HubDoor")
    /\ MapContains(SaveData.Actors, "Crate")
    /\ restoreCall.Pre["Crate"].Guid = InvalidGuid
    /\ ActorObjs["Crate"].Guid = InvalidGuid
    /\ ImplementsSpudObjectCallback(ActorObjs["Crate"].Class)
    /\ restoreCall.Trace["HubDoor"] = <<>>
    /\ opCall.Count > 0
    /\ ~MapContains(SaveData.GlobalData.Objects, opCall.ID)
    /\ SaveData.GlobalData.Objects # EmptyMap
    /\ ImplementsSpudObjectCallback(LiveObj.Class)
    /\ LiveObj = opCall.Pre

=============================================================================
